---- MODULE Spec2Model ----
(***************************************************************************)
(* Paystub text-to-structured-data extraction (src/src/paystub_analyzer.py *)
(* and the line corpus of src/src/pdf_parser.py).                          *)
(*                                                                         *)
(* Strings are sequences of one-character strings, so that substring       *)
(* search, the currency regular expressions, the date regular expressions  *)
(* and str.lower()/str.title() are computed character by character.        *)
(* Amounts are integers counting cents: every figure the parser accepts    *)
(* has at most two decimals, and float -> str -> Decimal keeps them.       *)
(***************************************************************************)
EXTENDS Integers, Sequences, FiniteSets, TLC

(* ------------------------------ characters ----------------------------- *)

\* str.lower() on one character: the ASCII upper-case letters.
LowerMap == ("A" :> "a") @@ ("B" :> "b") @@ ("C" :> "c") @@ ("D" :> "d") @@ ("E" :> "e") @@ ("F" :> "f") @@ ("G" :> "g") @@ ("H" :> "h") @@ ("I" :> "i") @@ ("J" :> "j") @@ ("K" :> "k") @@ ("L" :> "l") @@ ("M" :> "m") @@ ("N" :> "n") @@ ("O" :> "o") @@ ("P" :> "p") @@ ("Q" :> "q") @@ ("R" :> "r") @@ ("S" :> "s") @@ ("T" :> "t") @@ ("U" :> "u") @@ ("V" :> "v") @@ ("W" :> "w") @@ ("X" :> "x") @@ ("Y" :> "y") @@ ("Z" :> "z")

\* str.upper() on one character: the ASCII lower-case letters.
UpperMap == ("a" :> "A") @@ ("b" :> "B") @@ ("c" :> "C") @@ ("d" :> "D") @@ ("e" :> "E") @@ ("f" :> "F") @@ ("g" :> "G") @@ ("h" :> "H") @@ ("i" :> "I") @@ ("j" :> "J") @@ ("k" :> "K") @@ ("l" :> "L") @@ ("m" :> "M") @@ ("n" :> "N") @@ ("o" :> "O") @@ ("p" :> "P") @@ ("q" :> "Q") @@ ("r" :> "R") @@ ("s" :> "S") @@ ("t" :> "T") @@ ("u" :> "U") @@ ("v" :> "V") @@ ("w" :> "W") @@ ("x" :> "X") @@ ("y" :> "Y") @@ ("z" :> "Z")

\* The value of a decimal digit (int()/float() on one digit).
DigitVal == ("0" :> 0) @@ ("1" :> 1) @@ ("2" :> 2) @@ ("3" :> 3) @@ ("4" :> 4) @@ ("5" :> 5) @@ ("6" :> 6) @@ ("7" :> 7) @@ ("8" :> 8) @@ ("9" :> 9)

LowerChar(c) == IF c \in DOMAIN LowerMap THEN LowerMap[c] ELSE c

UpperChar(c) == IF c \in DOMAIN UpperMap THEN UpperMap[c] ELSE c

IsAlpha(c) == c \in DOMAIN LowerMap \/ c \in DOMAIN UpperMap

\* \d of the regular expressions.
IsDigit(c) == c \in DOMAIN DigitVal

\* \s of the regular expressions (the corpus holds no other whitespace:
\* lines are split on newlines and stripped).
IsSpace(c) == c = " "

\* str.lower()
Lower(s) == [i \in 1..Len(s) |-> LowerChar(s[i])]

\* The character at position i, "" past either end.
At(s, i) == IF i \in 1..Len(s) THEN s[i] ELSE ""

\* s[i-1:j] of Python: the characters at positions i..j that exist.
Slice(s, i, j) == SubSeq(s, i, IF j > Len(s) THEN Len(s) ELSE j)

\* Python's `p in s` on strings.
Contains(p, s) ==
    \E i \in 1..(Len(s) - Len(p) + 1) : \A k \in 1..Len(p) : s[i + k - 1] = p[k]

\* `p.lower() in s.lower()`
ContainsLower(p, s) ==
    \E i \in 1..(Len(s) - Len(p) + 1) :
        \A k \in 1..Len(p) : LowerChar(s[i + k - 1]) = LowerChar(p[k])

\* str.replace(old, new) for a single character old.
RECURSIVE Replace(_, _, _)
Replace(s, old, new) ==
    IF s = <<>> THEN <<>>
    ELSE (IF Head(s) = old THEN new ELSE <<Head(s)>>) \o Replace(Tail(s), old, new)

\* ' '.join(lines)
RECURSIVE Join(_)
Join(ls) ==
    IF ls = <<>> THEN <<>>
    ELSE IF Len(ls) = 1 THEN ls[1]
    ELSE ls[1] \o <<" ">> \o Join(Tail(ls))

\* The number of consecutive digits of s from position i on, at most max.
RECURSIVE DigitRun(_, _, _)
DigitRun(s, i, max) ==
    IF max = 0 \/ ~IsDigit(At(s, i)) THEN 0 ELSE 1 + DigitRun(s, i + 1, max - 1)

\* int() of a string of digits, continuing from acc.
RECURSIVE DigitsValue(_, _)
DigitsValue(ds, acc) ==
    IF ds = <<>> THEN acc ELSE DigitsValue(Tail(ds), 10 * acc + DigitVal[Head(ds)])

RECURSIVE SkipSpaces(_, _)
SkipSpaces(s, i) == IF IsSpace(At(s, i)) THEN SkipSpaces(s, i + 1) ELSE i

RECURSIVE SumSeq(_)
SumSeq(xs) == IF xs = <<>> THEN 0 ELSE Head(xs) + SumSeq(Tail(xs))

\* max() of a non-empty list.
MaxSeq(xs) == CHOOSE x \in {xs[i] : i \in 1..Len(xs)} : \A k \in 1..Len(xs) : x >= xs[k]

(* ------------------------------ LineCorpus ----------------------------- *)

\* RawPaystubText.find_lines_containing(pattern, case_sensitive): the second
\* argument only selects which comparison runs; the analyzer always leaves it
\* False, explicitly or by default.
find_lines_containing(lines, pattern, case_sensitive) ==
    IF case_sensitive
    THEN SelectSeq(lines, LAMBDA line : Contains(pattern, line))
    ELSE SelectSeq(lines, LAMBDA line : ContainsLower(pattern, line))

NoLine == <<"None">>

\* RawPaystubText.find_line_after(pattern, offset): the line offset places
\* after the first matching line that has such a line, NoLine when no
\* matching line has one.
find_line_after(lines, pattern, offset) ==
    LET hits == {i \in 1..Len(lines) :
                    /\ ContainsLower(pattern, lines[i])
                    /\ i + offset <= Len(lines)}
    IN  IF hits = {} THEN NoLine
        ELSE lines[(CHOOSE i \in hits : \A j \in hits : i <= j) + offset]

(* ----------------------------- AmountParser ---------------------------- *)

\* A variant of CommaGroupsEnd for a regular expression without the comma
\* groups, \d{1,3}(?:\.\d{2})?: the number ends where its first digits end.
CommaGroupsEnd_NoGroups(s, j) == j

\* Where (\d{1,3}(?:,\d{3})*(?:\.\d{2})?) ends when it starts at the digit
\* s[i]: every quantifier is greedy and everything after the first digit is
\* optional, so the first choice is final.
RECURSIVE CommaGroupsEnd(_, _)
CommaGroupsEnd(s, j) ==
    IF At(s, j) = "," /\ DigitRun(s, j + 1, 3) = 3 THEN CommaGroupsEnd(s, j + 4) ELSE j

FractionEnd(s, j) == IF At(s, j) = "." /\ DigitRun(s, j + 1, 2) = 2 THEN j + 3 ELSE j

NumberEnd(s, i) == FractionEnd(s, CommaGroupsEnd(s, i + DigitRun(s, i, 3)))

\* Where the group of -?\$?\s*(...) starts for a match attempted at i, 0 when
\* the attempt fails (skipping fewer of -, $ or blanks never helps: the
\* character left over is not a digit).
CurrencyGroupStart(s, i) ==
    LET a == IF At(s, i) = "-" THEN i + 1 ELSE i
        b == IF At(s, a) = "$" THEN a + 1 ELSE a
        c == SkipSpaces(s, b)
    IN  IF IsDigit(At(s, c)) THEN c ELSE 0

\* Where the group of -(...) starts for a match attempted at i, 0 on failure.
NegativeGroupStart(s, i) ==
    IF At(s, i) = "-" /\ IsDigit(At(s, i + 1)) THEN i + 1 ELSE 0

GroupStart(pattern, s, i) ==
    IF pattern = 1 THEN CurrencyGroupStart(s, i) ELSE NegativeGroupStart(s, i)

\* re.findall(pattern, line) from position i on: the groups of the
\* non-overlapping matches, scanning from the left; after a match the scan
\* resumes at its end.
RECURSIVE FindAll(_, _, _)

\* The scan at position i, g being where the group of a match attempted
\* there starts (0: no match at i).
FindAt(pattern, s, i, g) ==
    IF g = 0 THEN FindAll(pattern, s, i + 1)
    ELSE <<SubSeq(s, g, NumberEnd(s, g) - 1)>> \o FindAll(pattern, s, NumberEnd(s, g))

FindAll(pattern, s, i) ==
    IF i > Len(s) THEN <<>> ELSE FindAt(pattern, s, i, GroupStart(pattern, s, i))

\* float(amount_str), in cents, of digits with an optional two-digit fraction.
Float(amount_str) ==
    LET n == Len(amount_str)
    IN  IF n >= 3 /\ amount_str[n - 2] = "."
        THEN 100 * DigitsValue(SubSeq(amount_str, 1, n - 3), 0)
               + DigitsValue(SubSeq(amount_str, n - 1, n), 0)
        ELSE 100 * DigitsValue(amount_str, 0)

\* float(match.replace(',', ''))
AmountOfMatch(match) == Float(Replace(match, ",", <<>>))

\* A variant of SignificantAmounts that keeps the amounts from 0.01 on
\* (amount >= 0.01 in place of amount > 0.01).
RECURSIVE SignificantAmounts_Inclusive(_)
SignificantAmounts_Inclusive(matches) ==
    IF matches = <<>> THEN <<>>
    ELSE (IF AmountOfMatch(Head(matches)) >= 1 THEN <<AmountOfMatch(Head(matches))>> ELSE <<>>)
            \o SignificantAmounts_Inclusive(Tail(matches))

\* The loop over the matches: the amounts above 0.01, in the order of the matches.
RECURSIVE SignificantAmounts(_)
SignificantAmounts(matches) ==
    IF matches = <<>> THEN <<>>
    ELSE (IF AmountOfMatch(Head(matches)) > 1 THEN <<AmountOfMatch(Head(matches))>> ELSE <<>>)
            \o SignificantAmounts(Tail(matches))

\* PaystubAnalyzer._extract_amounts_from_line: the matches of the first
\* pattern, then those of the second, each kept when it exceeds 0.01.
_extract_amounts_from_line(line) ==
    SignificantAmounts(FindAll(1, line, 1) \o FindAll(2, line, 1))

\* PaystubAnalyzer._extract_amounts_from_lines
RECURSIVE _extract_amounts_from_lines(_)
_extract_amounts_from_lines(lines) ==
    IF lines = <<>> THEN <<>>
    ELSE _extract_amounts_from_line(Head(lines)) \o _extract_amounts_from_lines(Tail(lines))

(* -------------------------- MetadataExtractor -------------------------- *)

NoMatch == <<"None">>

\* Whether <prefix>\s*(\d{2}/\d{2}/\d{4}) matches text at position i, and where
\* its group starts then (0 when it does not match).
DateGroupStart(prefix, text, i) ==
    IF Slice(text, i, i + Len(prefix) - 1) # prefix THEN 0
    ELSE LET j == SkipSpaces(text, i + Len(prefix))
         IN  IF /\ DigitRun(text, j, 2) = 2
                /\ At(text, j + 2) = "/"
                /\ DigitRun(text, j + 3, 2) = 2
                /\ At(text, j + 5) = "/"
                /\ DigitRun(text, j + 6, 4) = 4
             THEN j ELSE 0

\* re.search(prefix + r'\s*(\d{2}/\d{2}/\d{4})', text): group 1 of the
\* leftmost match, NoMatch when there is none.
SearchDate(prefix, text) ==
    LET hits == {i \in 1..Len(text) : DateGroupStart(prefix, text, i) # 0}
    IN  IF hits = {} THEN NoMatch
        ELSE LET i == CHOOSE i \in hits : \A k \in hits : i <= k
                 j == DateGroupStart(prefix, text, i)
             IN  SubSeq(text, j, j + 9)

IsLeap(y) == y % 4 = 0 /\ (y % 100 # 0 \/ y % 400 = 0)

DaysInMonth(y, m) ==
    IF m = 2 THEN (IF IsLeap(y) THEN 29 ELSE 28)
    ELSE IF m \in {4, 6, 9, 11} THEN 30 ELSE 31

NoDate == [year |-> 0, month |-> 0, day |-> 0]

\* A variant of strptime that checks the ranges of the fields and not the
\* calendar: any day 01..31 passes in any month.
strptime_NoCalendar(s) ==
    LET m == DigitsValue(SubSeq(s, 1, 2), 0)
        d == DigitsValue(SubSeq(s, 4, 5), 0)
        y == DigitsValue(SubSeq(s, 7, 10), 0)
    IN  IF m \in 1..12 /\ y >= 1 /\ d \in 1..31
        THEN [year |-> y, month |-> m, day |-> d]
        ELSE [year |-> 0, month |-> 0, day |-> 0]

\* datetime.strptime(s, '%m/%d/%Y') on a string the regular expression
\* accepted: the date, or NoDate where strptime raises ValueError (month not
\* 01..12, day not in the month, year 0000).
strptime(s) ==
    LET m == DigitsValue(SubSeq(s, 1, 2), 0)
        d == DigitsValue(SubSeq(s, 4, 5), 0)
        y == DigitsValue(SubSeq(s, 7, 10), 0)
    IN  IF m \in 1..12 /\ y >= 1 /\ d >= 1 /\ d <= DaysInMonth(y, m)
        THEN [year |-> y, month |-> m, day |-> d]
        ELSE NoDate

\* A variant of FirstOfMonth that forgets replace(day=1).
FirstOfMonth_SameDay(pay_date) == pay_date

\* pay_date.replace(day=1)
FirstOfMonth(pay_date) == [pay_date EXCEPT !.day = 1]

DigitChars == <<"0", "1", "2", "3", "4", "5", "6", "7", "8", "9">>

\* The decimal digits of n, at least width of them (zero padded).
RECURSIVE Decimal(_, _)
Decimal(n, width) ==
    IF n < 10 /\ width <= 1 THEN <<DigitChars[n + 1]>>
    ELSE Decimal(n \div 10, width - 1) \o <<DigitChars[(n % 10) + 1]>>

\* date.strftime('%Y%m%d')
strftime(date) == Decimal(date.year, 4) \o Decimal(date.month, 2) \o Decimal(date.day, 2)

\* PaystubAnalyzer._extract_metadata: the metadata dictionary, or the
\* exception it raises (PaystubAnalysisError when the pay date is not found or
\* not matched, ValueError from strptime).
_extract_metadata(lines) ==
    LET text              == Join(lines)
        pay_date_line     == find_line_after(lines, <<"P", "a", "y", " ", "D", "a", "t", "e", ":">>, 1)
        pay_date_match    == SearchDate(<<"P", "a", "y", " ", "D", "a", "t", "e", ":">>, text)
        pay_date          == strptime(pay_date_match)
        period_start_match == SearchDate(<<"P", "e", "r", "i", "o", "d", " ", "B", "e", "g", "i", "n", "n", "i", "n", "g", ":">>, text)
        period_end_match  == SearchDate(<<"P", "e", "r", "i", "o", "d", " ", "E", "n", "d", "i", "n", "g", ":">>, text)
        period_start      == IF period_start_match # NoMatch
                             THEN strptime(period_start_match)
                             ELSE FirstOfMonth(pay_date)
        period_end        == IF period_end_match # NoMatch
                             THEN strptime(period_end_match)
                             ELSE pay_date
    IN  IF pay_date_line = NoLine
            THEN [raised |-> "PaystubAnalysisError", message |-> "Pay date not found"]
        ELSE IF pay_date_match = NoMatch
            THEN [raised |-> "PaystubAnalysisError", message |-> "Could not parse pay date"]
        ELSE IF pay_date = NoDate \/ period_start = NoDate \/ period_end = NoDate
            THEN [raised |-> "ValueError", message |-> "strptime"]
        ELSE [raised |-> "",
              pay_date |-> pay_date,
              period_start |-> period_start,
              period_end |-> period_end,
              advice_number |-> <<"A", "D", "V", "_">> \o strftime(pay_date)]

(* --------------------------- CategoryClassifier ------------------------ *)

\* What get_category_mapping returns: None, or the dictionary of an entry
\* (keys: the keys it has; category, description: their values, "" for a key
\* it lacks).
NoMapping == [is_none |-> TRUE, keys |-> {}, category |-> <<>>, description |-> <<>>]

Entry(keys, category, description) ==
    [is_none |-> FALSE, keys |-> keys, category |-> category, description |-> description]

\* ConfigManager.get_category_mapping on a loaded table:
\* category_mappings[category_type][item_key], None on KeyError.
get_category_mapping(mappings, category_type, item_key) ==
    IF category_type \in DOMAIN mappings /\ item_key \in DOMAIN mappings[category_type]
    THEN mappings[category_type][item_key]
    ELSE NoMapping

\* Python's truth value of what get_category_mapping returned: None and the
\* empty dictionary are false.
Truthy(mapping) == ~mapping.is_none /\ mapping.keys # {}

\* A variant of Title that keeps the key as it is written.
Title_AsWritten(s) == s

\* str.title(): a letter is upper-cased when no letter precedes it and
\* lower-cased otherwise; other characters are kept.
Title(s) ==
    [i \in 1..Len(s) |->
        IF ~IsAlpha(s[i]) THEN s[i]
        ELSE IF i = 1 \/ ~IsAlpha(s[i - 1]) THEN UpperChar(s[i])
        ELSE LowerChar(s[i])]

(* ------------------------------ RSUHeuristic --------------------------- *)

\* A variant of _detect_rsu_vesting that takes RSU lines without an amount
\* as no evidence.
_detect_rsu_vesting_AmountRequired(lines) ==
    LET rsu_amount     == _extract_amounts_from_lines(
                              find_lines_containing(lines, <<"r", "s", "u", " ", "v", "e", "s", "t">>, FALSE))
        regular_amount == _extract_amounts_from_lines(
                              find_lines_containing(lines, <<"r", "e", "g", "u", "l", "a", "r">>, FALSE))
    IN  IF rsu_amount = <<>> THEN FALSE
        ELSE IF regular_amount # <<>> THEN rsu_amount[1] > regular_amount[1] * 2
        ELSE rsu_amount[1] > 1000000

\* PaystubAnalyzer._detect_rsu_vesting
_detect_rsu_vesting(lines) ==
    LET rsu_lines      == find_lines_containing(lines, <<"r", "s", "u", " ", "v", "e", "s", "t">>, FALSE)
        rsu_amount     == _extract_amounts_from_lines(rsu_lines)
        regular_lines  == find_lines_containing(lines, <<"r", "e", "g", "u", "l", "a", "r">>, FALSE)
        regular_amount == _extract_amounts_from_lines(regular_lines)
    IN  IF rsu_lines = <<>> THEN FALSE
        ELSE IF rsu_amount # <<>> /\ regular_amount # <<>>
            THEN rsu_amount[1] > regular_amount[1] * 2
        ELSE IF rsu_amount # <<>>
            THEN rsu_amount[1] > 1000000
        ELSE Len(rsu_lines) > 0

(* --------------------------- TransactionExtractor ---------------------- *)

Transaction(description, amount, category, account, original_text) ==
    [description |-> description, amount |-> amount, category |-> category,
     account |-> account, notes |-> <<>>, original_text |-> original_text]

\* What an extraction step yields: its transactions, or the KeyError a
\* subscript of a mapping entry raises.
Extracted(transactions) == [raised |-> "", transactions |-> transactions]

KeyError == [raised |-> "KeyError", transactions |-> <<>>]

\* A variant of FirstLineWithAmount that takes the last such line.
RECURSIVE FirstLineWithAmount_Last(_)
FirstLineWithAmount_Last(matching_lines) ==
    IF matching_lines = <<>> THEN NoLine
    ELSE IF _extract_amounts_from_line(matching_lines[Len(matching_lines)]) # <<>>
        THEN matching_lines[Len(matching_lines)]
    ELSE FirstLineWithAmount_Last(SubSeq(matching_lines, 1, Len(matching_lines) - 1))

\* The inner loop of the extractors: the first of the matching lines that
\* carries amounts whose maximum is positive, NoLine when there is none.
RECURSIVE FirstLineWithAmount(_)
FirstLineWithAmount(matching_lines) ==
    IF matching_lines = <<>> THEN NoLine
    ELSE LET amounts == _extract_amounts_from_line(Head(matching_lines))
         IN  IF amounts # <<>> /\ MaxSeq(amounts) > 0 THEN Head(matching_lines)
             ELSE FirstLineWithAmount(Tail(matching_lines))

\* earnings_patterns, one entry per (earning_type, pattern) in iteration order.
earnings_patterns ==
    << <<<<"r", "e", "g", "u", "l", "a", "r">>, <<"R", "e", "g", "u", "l", "a", "r">>>>,
       <<<<"r", "s", "u", "_", "v", "e", "s", "t">>, <<"R", "s", "u", " ", "V", "e", "s", "t">>>>,
       <<<<"r", "s", "u", "_", "v", "e", "s", "t">>, <<"R", "S", "U", " ", "V", "e", "s", "t">>>>,
       <<<<"f", "l", "e", "x", "_", "p", "t", "o">>, <<"F", "l", "e", "x", "/", "P", "t", "o">>>>,
       <<<<"f", "l", "e", "x", "_", "p", "t", "o">>, <<"F", "l", "e", "x", "/", "P", "T", "O">>>>,
       <<<<"h", "o", "l", "i", "d", "a", "y", "_", "p", "a", "y">>, <<"H", "o", "l", "i", "d", "a", "y", " ", "P", "a", "y">>>>,
       <<<<"s", "t", "d", "_", "p", "t", "o", "_", "p", "a", "y">>, <<"S", "t", "n", "d", " ", "P", "t", "o", " ", "P", "a", "y">>>>,
       <<<<"s", "t", "d", "_", "p", "t", "o", "_", "p", "a", "y">>, <<"S", "t", "d", " ", "P", "t", "o", " ", "P", "a", "y">>>>,
       <<<<"i", "m", "p", "u", "t", "e", "d", "_", "i", "n", "c", "o", "m", "e">>, <<"I", "m", "p", "u", "t", "e", "d", " ", "I", "n", "c", "o", "m", "e">>>> >>

\* deduction_patterns, one entry per (deduction_type, pattern) in iteration order.
deduction_patterns ==
    << <<<<"f", "e", "d", "e", "r", "a", "l", "_", "i", "n", "c", "o", "m", "e", "_", "t", "a", "x">>, <<"F", "e", "d", "e", "r", "a", "l", " ", "I", "n", "c", "o", "m", "e", " ", "T", "a", "x">>>>,
       <<<<"m", "e", "d", "i", "c", "a", "r", "e", "_", "t", "a", "x">>, <<"M", "e", "d", "i", "c", "a", "r", "e", " ", "T", "a", "x">>>>,
       <<<<"m", "e", "d", "i", "c", "a", "r", "e", "_", "s", "u", "r", "t", "a", "x">>, <<"M", "e", "d", "i", "c", "a", "r", "e", " ", "S", "u", "r", "t", "a", "x">>>>,
       <<<<"s", "o", "c", "i", "a", "l", "_", "s", "e", "c", "u", "r", "i", "t", "y", "_", "t", "a", "x">>, <<"S", "o", "c", "i", "a", "l", " ", "S", "e", "c", "u", "r", "i", "t", "y", " ", "T", "a", "x">>>>,
       <<<<"w", "a", "_", "p", "a", "i", "d", "_", "f", "a", "m", "i", "l", "y", "_", "l", "e", "a", "v", "e">>, <<"W", "A", " ", "P", "a", "i", "d", " ", "F", "a", "m", "i", "l", "y", " ", "L", "e", "a", "v", "e">>>>,
       <<<<"w", "a", "_", "p", "a", "i", "d", "_", "m", "e", "d", "i", "c", "a", "l", "_", "l", "e", "a", "v", "e">>, <<"W", "A", " ", "P", "a", "i", "d", " ", "M", "e", "d", "i", "c", "a", "l", " ", "L", "e", "a", "v", "e">>>>,
       <<<<"4", "0", "1", "k", "_", "t", "r", "a", "d", "i", "t", "i", "o", "n", "a", "l">>, <<"4", "0", "1", "K", "-", "T", "r", "a", "d">>>>,
       <<<<"4", "0", "1", "k", "_", "a", "f", "t", "e", "r", "_", "t", "a", "x">>, <<"4", "0", "1", "K", " ", "A", "f", "t", "e", "r", " ", "T", "a", "x">>>>,
       <<<<"h", "s", "a">>, <<"H", "s", "a">>>>,
       <<<<"h", "s", "a">>, <<"H", "S", "A">>>>,
       <<<<"p", "r", "e", "_", "t", "a", "x", "_", "m", "e", "d", "i", "c", "a", "l">>, <<"P", "r", "e", "-", "T", "a", "x", " ", "M", "e", "d", "i", "c", "a", "l">>>>,
       <<<<"p", "r", "e", "_", "t", "a", "x", "_", "d", "e", "n", "t", "a", "l">>, <<"P", "r", "e", "-", "T", "a", "x", " ", "D", "e", "n", "t", "a", "l">>>>,
       <<<<"p", "r", "e", "_", "t", "a", "x", "_", "v", "i", "s", "i", "o", "n">>, <<"P", "r", "e", "-", "T", "a", "x", " ", "V", "i", "s", "i", "o", "n">>>>,
       <<<<"g", "r", "o", "u", "p", "t", "e", "r", "m", "_", "l", "i", "f", "e">>, <<"G", "r", "o", "u", "p", "t", "e", "r", "m", " ", "L", "i", "f", "e">>>>,
       <<<<"s", "u", "p", "p", "_", "l", "i", "f", "e", "_", "i", "n", "s">>, <<"S", "u", "p", "p", " ", "L", "i", "f", "e", " ", "I", "n", "s">>>>,
       <<<<"s", "u", "p", "p", "_", "a", "d", "d">>, <<"S", "u", "p", "p", " ", "A", "d", "/", "D">>>>,
       <<<<"c", "r", "i", "t", "i", "c", "_", "i", "l", "l", "n", "e", "s", "s">>, <<"C", "r", "i", "t", "i", "c", " ", "I", "l", "l", "n", "e", "s", "s">>>>,
       <<<<"o", "c", "_", "p", "a", "r", "k", "_", "c", "h", "a", "r", "g", "e">>, <<"O", "c", " ", "P", "a", "r", "k", " ", "C", "h", "a", "r", "g", "e">>>> >>

distribution_patterns ==
    <<<<"C", "h", "e", "c", "k", "i", "n", "g", " ", "A", "c", "c", "t", " ", "1">>, <<"C", "h", "e", "c", "k", "i", "n", "g", " ", "A", "c", "c", "t", " ", "2">>, <<"S", "a", "v", "i", "n", "g", "s", " ", "A", "c", "c", "t", " ", "1">>, <<"N", "e", "t", " ", "C", "h", "e", "c", "k">>>>

\* The subsections probed for a deduction, in order.
deduction_sections ==
    <<<<"s", "t", "a", "t", "u", "t", "o", "r", "y">>, <<"r", "e", "t", "i", "r", "e", "m", "e", "n", "t">>, <<"h", "e", "a", "l", "t", "h", "c", "a", "r", "e">>, <<"l", "i", "f", "e", "_", "i", "n", "s", "u", "r", "a", "n", "c", "e">>, <<"o", "t", "h", "e", "r">>>>

\* The transactions one earnings pattern contributes: none, one, or KeyError
\* when the mapping entry lacks 'category' or 'description'.
EarningsOfPattern(lines, mappings, earning_type, pattern) ==
    LET line == FirstLineWithAmount(find_lines_containing(lines, pattern, FALSE))
        amount == MaxSeq(_extract_amounts_from_line(line))
        category_mapping == get_category_mapping(mappings, <<"e", "a", "r", "n", "i", "n", "g", "s">>, earning_type)
    IN  IF line = NoLine THEN Extracted(<<>>)
        ELSE IF ~Truthy(category_mapping)
            THEN Extracted(<<Transaction(pattern, amount, <<"I", "n", "c", "o", "m", "e", ":">> \o Title(earning_type),
                                         <<>>, line)>>)
        ELSE IF {"category", "description"} \subseteq category_mapping.keys
            THEN Extracted(<<Transaction(category_mapping.description, amount,
                                         category_mapping.category, <<>>, line)>>)
        ELSE KeyError

\* The first mapping the probe of the deduction subsections finds, None
\* when no subsection yields a true value.
RECURSIVE ProbeSections(_, _, _)
ProbeSections(mappings, sections, deduction_type) ==
    IF sections = <<>> THEN NoMapping
    ELSE LET cat_map == get_category_mapping(mappings, <<"d", "e", "d", "u", "c", "t", "i", "o", "n", "s", ".">> \o Head(sections),
                                             deduction_type)
         IN  IF Truthy(cat_map) THEN cat_map
             ELSE ProbeSections(mappings, Tail(sections), deduction_type)

\* The transactions one deduction pattern contributes.
DeductionsOfPattern(lines, mappings, deduction_type, pattern) ==
    LET line == FirstLineWithAmount(find_lines_containing(lines, pattern, FALSE))
        amount == MaxSeq(_extract_amounts_from_line(line))
        category_mapping == ProbeSections(mappings, deduction_sections, deduction_type)
    IN  IF line = NoLine THEN Extracted(<<>>)
        ELSE IF category_mapping.is_none
            THEN Extracted(<<Transaction(pattern, amount,
                                         <<"D", "e", "d", "u", "c", "t", "i", "o", "n", "s", ":">> \o Title(deduction_type), <<>>, line)>>)
        ELSE IF {"category", "description"} \subseteq category_mapping.keys
            THEN Extracted(<<Transaction(category_mapping.description, amount,
                                         category_mapping.category, <<>>, line)>>)
        ELSE KeyError

\* The outer loops of _extract_earnings from the k-th pattern on, earnings
\* being the list so far: the final list, or KeyError as soon as one pattern
\* raises it (nothing observable happens between the patterns).
RECURSIVE EarningsFrom(_, _, _, _)
EarningsFrom(k, lines, mappings, earnings) ==
    IF k > Len(earnings_patterns) THEN Extracted(earnings)
    ELSE LET found == EarningsOfPattern(lines, mappings, earnings_patterns[k][1],
                                        earnings_patterns[k][2])
         IN  IF found.raised # "" THEN KeyError
             ELSE EarningsFrom(k + 1, lines, mappings, earnings \o found.transactions)

\* PaystubAnalyzer._extract_earnings
_extract_earnings(lines, mappings) == EarningsFrom(1, lines, mappings, <<>>)

\* The outer loops of _extract_deductions, likewise.
RECURSIVE DeductionsFrom(_, _, _, _)
DeductionsFrom(k, lines, mappings, deductions) ==
    IF k > Len(deduction_patterns) THEN Extracted(deductions)
    ELSE LET found == DeductionsOfPattern(lines, mappings, deduction_patterns[k][1],
                                          deduction_patterns[k][2])
         IN  IF found.raised # "" THEN KeyError
             ELSE DeductionsFrom(k + 1, lines, mappings, deductions \o found.transactions)

\* PaystubAnalyzer._extract_deductions
_extract_deductions(lines, mappings) == DeductionsFrom(1, lines, mappings, <<>>)

\* A variant of DistributionsOfLines that stops after the first line that
\* yields a transaction.
DistributionsOfLines_FirstOnly(matching_lines, mappings, pattern) ==
    LET line == FirstLineWithAmount(matching_lines)
        account_key == Replace(Lower(pattern), " ", <<"_">>)
        account_name == IF /\ <<"a", "c", "c", "o", "u", "n", "t", "_", "m", "a", "p", "p", "i", "n", "g", "s">> \in DOMAIN mappings
                           /\ account_key \in DOMAIN mappings[<<"a", "c", "c", "o", "u", "n", "t", "_", "m", "a", "p", "p", "i", "n", "g", "s">>]
                        THEN mappings[<<"a", "c", "c", "o", "u", "n", "t", "_", "m", "a", "p", "p", "i", "n", "g", "s">>][account_key] ELSE pattern
    IN  IF line = NoLine THEN <<>>
        ELSE <<Transaction(<<"D", "i", "r", "e", "c", "t", " ", "d", "e", "p", "o", "s", "i", "t", " ", "t", "o", " ">> \o account_name,
                           MaxSeq(_extract_amounts_from_line(line)),
                           <<"T", "r", "a", "n", "s", "f", "e", "r", ":", "D", "i", "r", "e", "c", "t", " ", "D", "e", "p", "o", "s", "i", "t">>, account_name, line)>>

\* The transactions of the lines matching one distribution pattern, every
\* line with a positive maximum amount contributing one.
RECURSIVE DistributionsOfLines(_, _, _)
DistributionsOfLines(matching_lines, mappings, pattern) ==
    IF matching_lines = <<>> THEN <<>>
    ELSE LET line == Head(matching_lines)
             amounts == _extract_amounts_from_line(line)
             account_mappings == IF <<"a", "c", "c", "o", "u", "n", "t", "_", "m", "a", "p", "p", "i", "n", "g", "s">> \in DOMAIN mappings
                                 THEN mappings[<<"a", "c", "c", "o", "u", "n", "t", "_", "m", "a", "p", "p", "i", "n", "g", "s">>] ELSE <<>>
             account_key == Replace(Lower(pattern), " ", <<"_">>)
             account_name == IF account_key \in DOMAIN account_mappings
                             THEN account_mappings[account_key] ELSE pattern
             rest == DistributionsOfLines(Tail(matching_lines), mappings, pattern)
         IN  IF amounts # <<>> /\ MaxSeq(amounts) > 0
             THEN <<Transaction(<<"D", "i", "r", "e", "c", "t", " ", "d", "e", "p", "o", "s", "i", "t", " ", "t", "o", " ">> \o account_name, MaxSeq(amounts),
                                <<"T", "r", "a", "n", "s", "f", "e", "r", ":", "D", "i", "r", "e", "c", "t", " ", "D", "e", "p", "o", "s", "i", "t">>, account_name, line)>> \o rest
             ELSE rest

\* PaystubAnalyzer._extract_distributions, from the k-th pattern on.
RECURSIVE DistributionsFrom(_, _, _)
DistributionsFrom(k, lines, mappings) ==
    IF k > Len(distribution_patterns) THEN <<>>
    ELSE DistributionsOfLines(find_lines_containing(lines, distribution_patterns[k], FALSE),
                              mappings, distribution_patterns[k])
           \o DistributionsFrom(k + 1, lines, mappings)

_extract_distributions(lines, mappings) == DistributionsFrom(1, lines, mappings)

(* ----------------------------- PaystubAssembler ------------------------ *)

\* A variant of SumAmounts that leaves the first transaction out.
RECURSIVE SumAmounts_SkipFirst(_)
SumAmounts_SkipFirst(transactions) ==
    IF Len(transactions) <= 1 THEN 0
    ELSE transactions[2].amount + SumAmounts_SkipFirst(Tail(transactions))

\* sum(txn.amount for txn in transactions)
RECURSIVE SumAmounts(_)
SumAmounts(transactions) ==
    IF transactions = <<>> THEN 0
    ELSE Head(transactions).amount + SumAmounts(Tail(transactions))

\* PaystubData.calculate_total_deductions
calculate_total_deductions(data) == SumAmounts(data.deductions)

Abs(x) == IF x < 0 THEN -x ELSE x

\* PaystubData.validate_balance
validate_balance(data) ==
    LET total_deductions == calculate_total_deductions(data)
        expected_net == data.gross_pay - total_deductions
    IN  Abs(expected_net - data.net_pay) < 1

\* The first n lines (lines[:n]).
FirstLines(lines, n) == SubSeq(lines, 1, IF Len(lines) < n THEN Len(lines) ELSE n)

\* A variant of PaystubData that rejects a record out of balance.
PaystubData_RejectUnbalanced(metadata, is_rsu_vest, earnings, deductions, distributions, lines) ==
    IF metadata.raised # ""
        THEN [raised |-> "PaystubAnalysisError", cause |-> metadata.message]
    ELSE IF earnings.raised # "" \/ deductions.raised # ""
        THEN [raised |-> "PaystubAnalysisError", cause |-> "KeyError"]
    ELSE IF SumAmounts(earnings.transactions) - SumAmounts(deductions.transactions)
               # SumAmounts(distributions)
        THEN [raised |-> "PaystubAnalysisError", cause |-> "balance"]
    ELSE [raised |-> "",
          pay_date |-> metadata.pay_date,
          period_start |-> metadata.period_start,
          period_end |-> metadata.period_end,
          advice_number |-> metadata.advice_number,
          gross_pay |-> SumAmounts(earnings.transactions),
          net_pay |-> SumAmounts(distributions),
          earnings |-> earnings.transactions,
          deductions |-> deductions.transactions,
          distributions |-> distributions,
          is_rsu_vest |-> is_rsu_vest,
          raw_text_preview |-> FirstLines(lines, 20)]

\* The tail of analyze_paystub, from the totals on: the PaystubData built
\* from what the steps returned, or the PaystubAnalysisError into which the
\* except clause turns the exception one of them raised.
PaystubData(metadata, is_rsu_vest, earnings, deductions, distributions, lines) ==
    IF metadata.raised # ""
        THEN [raised |-> "PaystubAnalysisError", cause |-> metadata.message]
    ELSE IF earnings.raised # "" \/ deductions.raised # ""
        THEN [raised |-> "PaystubAnalysisError", cause |-> "KeyError"]
    ELSE [raised |-> "",
          pay_date |-> metadata.pay_date,
          period_start |-> metadata.period_start,
          period_end |-> metadata.period_end,
          advice_number |-> metadata.advice_number,
          gross_pay |-> SumAmounts(earnings.transactions),
          net_pay |-> SumAmounts(distributions),
          earnings |-> earnings.transactions,
          deductions |-> deductions.transactions,
          distributions |-> distributions,
          is_rsu_vest |-> is_rsu_vest,
          raw_text_preview |-> FirstLines(lines, 20)]

\* PaystubAnalyzer.analyze_paystub: the steps in order. A step after one
\* that raised does not run; it has no effect to leave out, so its value is
\* computed and dropped.
analyze_paystub(lines, mappings) ==
    PaystubData(_extract_metadata(lines),
                _detect_rsu_vesting(lines),
                _extract_earnings(lines, mappings),
                _extract_deductions(lines, mappings),
                _extract_distributions(lines, mappings),
                lines)

(* ------------------------- inputs of the parser ------------------------ *)

\* How many comma groups (groups of three digits) a generated figure has at most.
MaxGroups == 1

\* How many figures a generated line carries at most.
MaxTokens == 2

DigitPool == {"0", "1"}

DigitStrings(n) == [1..n -> DigitPool]

\* A printed figure: an optional minus sign, an optional currency symbol
\* (with or without a blank after it), one to three leading digits, further
\* groups of three digits written with or without separating commas, and an
\* optional two-digit fraction. Amounts are counted in cents and a figure has
\* at most eight integer digits, so that every amount is below 2^31 cents.
GeneratedFigures ==
    {t \in [neg : BOOLEAN, sym : {<<>>, <<"$">>, <<"$", " ">>},
            lead : UNION {DigitStrings(n) : n \in 1..3},
            groups : UNION {[1..k -> DigitStrings(3)] : k \in 0..MaxGroups},
            sep : BOOLEAN,
            frac : {<<>>, <<"0", "0">>, <<"0", "1">>, <<"1", "0">>}] :
        /\ t.groups = <<>> => t.sep
        /\ Len(t.lead) + 3 * Len(t.groups) <= 8}

Figure(neg, sym, lead, groups, sep, frac) ==
    [neg |-> neg, sym |-> sym, lead |-> lead, groups |-> groups, sep |-> sep, frac |-> frac]

\* The figures the specification names: $1,234.56, 3000.00, 15000.00, 0, 0.00, 0.01.
NamedFigures ==
    { Figure(FALSE, <<"$">>, <<"1">>, <<<<"2", "3", "4">>>>, TRUE, <<"5", "6">>),
      Figure(FALSE, <<>>, <<"3">>, <<<<"0", "0", "0">>>>, FALSE, <<"0", "0">>),
      Figure(FALSE, <<>>, <<"1", "5">>, <<<<"0", "0", "0">>>>, FALSE, <<"0", "0">>),
      Figure(FALSE, <<>>, <<"0">>, <<>>, TRUE, <<>>),
      Figure(FALSE, <<>>, <<"0">>, <<>>, TRUE, <<"0", "0">>),
      Figure(FALSE, <<>>, <<"0">>, <<>>, TRUE, <<"0", "1">>) }

\* The figures of the lines that carry several: 100.00, -50.00, $1,000.00, 0.01.
ColumnFigures ==
    { Figure(FALSE, <<>>, <<"1", "0", "0">>, <<>>, TRUE, <<"0", "0">>),
      Figure(TRUE, <<>>, <<"5", "0">>, <<>>, TRUE, <<"0", "0">>),
      Figure(FALSE, <<"$">>, <<"1">>, <<<<"0", "0", "0">>>>, TRUE, <<"0", "0">>),
      Figure(FALSE, <<>>, <<"0">>, <<>>, TRUE, <<"0", "1">>) }

\* What may precede the figures on a line: nothing, or a label without digits.
FigureLabels == {<<>>, <<"R", "e", "g", "u", "l", "a", "r", " ">>}

RECURSIVE Flatten(_, _)
Flatten(groups, sep) ==
    IF groups = <<>> THEN <<>> ELSE sep \o Head(groups) \o Flatten(Tail(groups), sep)

\* The characters a figure is printed as.
Typeset(t) ==
    (IF t.neg THEN <<"-">> ELSE <<>>) \o t.sym \o t.lead
       \o Flatten(t.groups, IF t.sep THEN <<",">> ELSE <<>>)
       \o (IF t.frac = <<>> THEN <<>> ELSE <<".">> \o t.frac)

\* The magnitude of a figure, in cents.
FigureCents(t) ==
    100 * DigitsValue(t.lead \o Flatten(t.groups, <<>>), 0) + DigitsValue(t.frac, 0)

RECURSIVE TypesetAll(_)
TypesetAll(ts) ==
    IF ts = <<>> THEN <<>>
    ELSE IF Len(ts) = 1 THEN Typeset(ts[1])
    ELSE Typeset(ts[1]) \o <<" ">> \o TypesetAll(Tail(ts))

\* The figure sequences the generated lines are printed from.
FigureRows ==
    {<<t>> : t \in GeneratedFigures \cup NamedFigures}
       \cup UNION {[1..n -> ColumnFigures] : n \in 2..MaxTokens}

(* ------------------------ inputs of the analyzer ----------------------- *)

\* How many lines a generated corpus has at most.
MaxLines == 4

PayDateLine == <<"P", "a", "y", " ", "D", "a", "t", "e", ":", " ", "0", "8", "/", "2", "9", "/", "2", "0", "2", "5">>

RegularLine == <<"R", "e", "g", "u", "l", "a", "r", " ", "3", "0", "0", "0", ".", "0", "0">>

FederalTaxLine == <<"F", "e", "d", "e", "r", "a", "l", " ", "I", "n", "c", "o", "m", "e", " ", "T", "a", "x", " ", "4", "5", "0", ".", "0", "0">>

CheckingLine == <<"C", "h", "e", "c", "k", "i", "n", "g", " ", "A", "c", "c", "t", " ", "1", " ", "2", "5", "5", "0", ".", "0", "0">>

RsuVestLine == <<"R", "s", "u", " ", "V", "e", "s", "t", " ", "1", "5", ",", "0", "0", "0", ".", "0", "0">>

HsaLine == <<"H", "s", "a", " ", "5", "0", ".", "0", "0">>

\* The lines of the end-to-end scenario, with an RSU line (matched by both
\* spellings of its pattern) and a deduction line of a two-spelling pattern.
ScenarioLines ==
    {PayDateLine, RegularLine, FederalTaxLine, CheckingLine, RsuVestLine, HsaLine}

\* A pay date that matches the regular expression and is no calendar date.
ImpossiblePayDateLine == <<"P", "a", "y", " ", "D", "a", "t", "e", ":", " ", "0", "2", "/", "3", "0", "/", "2", "0", "2", "5">>

\* A pay date in the wrong letter case: find_line_after sees it, the regular
\* expression does not.
LowerCasePayDateLine == <<"p", "a", "y", " ", "d", "a", "t", "e", ":", " ", "0", "8", "/", "2", "9", "/", "2", "0", "2", "5">>

PeriodBeginningLine == <<"P", "e", "r", "i", "o", "d", " ", "B", "e", "g", "i", "n", "n", "i", "n", "g", ":", " ", "0", "8", "/", "1", "6", "/", "2", "0", "2", "5">>

MalformedPeriodBeginningLine == <<"P", "e", "r", "i", "o", "d", " ", "B", "e", "g", "i", "n", "n", "i", "n", "g", ":", " ", "1", "3", "/", "4", "5", "/", "2", "0", "2", "5">>

PeriodEndingLine == <<"P", "e", "r", "i", "o", "d", " ", "E", "n", "d", "i", "n", "g", ":", " ", "0", "8", "/", "3", "1", "/", "2", "0", "2", "5">>

\* Lines carrying the dates of the metadata, and a line without any date.
MetadataLines ==
    {PayDateLine, ImpossiblePayDateLine, LowerCasePayDateLine, PeriodBeginningLine,
     MalformedPeriodBeginningLine, PeriodEndingLine, RegularLine}

\* The corpora of at most MaxLines lines drawn from pool.
Corpora(pool) == UNION {[1..n -> pool] : n \in 0..MaxLines}

\* A table whose entries are complete, with an account name.
\* The section _validate_category_mappings requires of every table: the
\* analyzer matches on its own pattern lists and never reads the entries.
field_mappings ==
    (<<"e", "a", "r", "n", "i", "n", "g", "s", "_", "p", "a", "t", "t", "e", "r", "n", "s">> :> <<>>) @@ (<<"d", "e", "d", "u", "c", "t", "i", "o", "n", "_", "p", "a", "t", "t", "e", "r", "n", "s">> :> <<>>)

CompleteMappings ==
    (<<"e", "a", "r", "n", "i", "n", "g", "s">> :> (<<"r", "e", "g", "u", "l", "a", "r">> :> Entry({"category", "description"},
                                         <<"I", "n", "c", "o", "m", "e", ":", "S", "a", "l", "a", "r", "y">>, <<"R", "e", "g", "u", "l", "a", "r", " ", "P", "a", "y">>)))
      @@ (<<"d", "e", "d", "u", "c", "t", "i", "o", "n", "s">> :> <<>>)
      @@ (<<"f", "i", "e", "l", "d", "_", "m", "a", "p", "p", "i", "n", "g", "s">> :> field_mappings)
      @@ (<<"a", "c", "c", "o", "u", "n", "t", "_", "m", "a", "p", "p", "i", "n", "g", "s">> :> (<<"c", "h", "e", "c", "k", "i", "n", "g", "_", "a", "c", "c", "t", "_", "1">> :> <<"J", "o", "i", "n", "t", " ", "C", "h", "e", "c", "k", "i", "n", "g">>))

\* The table of test_load_category_mappings_success: it passes validation
\* and its entries have a category and no description.
CategoryOnlyMappings ==
    (<<"e", "a", "r", "n", "i", "n", "g", "s">> :> (<<"r", "e", "g", "u", "l", "a", "r">> :> Entry({"category"}, <<"I", "n", "c", "o", "m", "e", ":", "S", "a", "l", "a", "r", "y">>, <<>>)))
      @@ (<<"d", "e", "d", "u", "c", "t", "i", "o", "n", "s">> :> <<>>)
      @@ (<<"f", "i", "e", "l", "d", "_", "m", "a", "p", "p", "i", "n", "g", "s">> :> field_mappings)

(* ----------------------------- configuration ---------------------------- *)

\* The values json.load produces, tagged by their Python type.
None == [kind |-> "None"]

Str(text) == [kind |-> "str", text |-> text]

Number(n) == [kind |-> "int", n |-> n]

Bool(b) == [kind |-> "bool", b |-> b]

List(elements) == [kind |-> "list", elements |-> elements]

Dict(items) == [kind |-> "dict", items |-> items]

\* `not value`: None, the empty containers, zero and False are falsy.
Falsy(value) ==
    CASE value.kind = "None" -> TRUE
      [] value.kind = "dict" -> DOMAIN value.items = {}
      [] value.kind = "list" -> value.elements = <<>>
      [] value.kind = "str"  -> value.text = <<>>
      [] value.kind = "int"  -> value.n = 0
      [] value.kind = "bool" -> ~value.b

\* `key in value` for a dict (its keys) and a list (its elements).
In(key, value) ==
    CASE value.kind = "dict" -> key \in DOMAIN value.items
      [] value.kind = "list" ->
            \E i \in 1..Len(value.elements) : value.elements[i] = Str(key)

\* value.get(key, default) of a dict.
Get(value, key, default) ==
    IF key \in DOMAIN value.items THEN value.items[key] ELSE default

column_headers ==
    <<Str(<<"d", "a", "t", "e">>), Str(<<"d", "e", "s", "c", "r", "i", "p", "t", "i", "o", "n">>), Str(<<"o", "r", "i", "g", "i", "n", "a", "l", "_", "d", "e", "s", "c", "r", "i", "p", "t", "i", "o", "n">>),
      Str(<<"a", "m", "o", "u", "n", "t">>), Str(<<"t", "r", "a", "n", "s", "a", "c", "t", "i", "o", "n", "_", "t", "y", "p", "e">>), Str(<<"c", "a", "t", "e", "g", "o", "r", "y">>),
      Str(<<"a", "c", "c", "o", "u", "n", "t", "_", "n", "a", "m", "e">>), Str(<<"l", "a", "b", "e", "l", "s">>), Str(<<"n", "o", "t", "e", "s">>)>>

\* Four of the five sections every settings document needs.
PlainSections ==
    (<<"o", "u", "t", "p", "u", "t">> :> Dict(<<"c", "s", "v", "_", "f", "o", "r", "m", "a", "t">> :> Str(<<"m", "o", "n", "a", "r", "c", "h", "_", "m", "o", "n", "e", "y">>)))
      @@ (<<"p", "r", "o", "c", "e", "s", "s", "i", "n", "g">> :> Dict(<<"p", "d", "f", "_", "p", "a", "r", "s", "e", "r">> :> Str(<<"p", "d", "f", "p", "l", "u", "m", "b", "e", "r">>)))
      @@ (<<"f", "i", "l", "e", "_", "h", "a", "n", "d", "l", "i", "n", "g">> :> Dict(<<"i", "n", "p", "u", "t", "_", "d", "i", "r", "e", "c", "t", "o", "r", "y">> :> Str(<<".", "/", "d", "a", "t", "a">>)))
      @@ (<<"v", "a", "l", "i", "d", "a", "t", "i", "o", "n">> :> Dict(<<"v", "e", "r", "i", "f", "y", "_", "g", "r", "o", "s", "s", "_", "n", "e", "t", "_", "b", "a", "l", "a", "n", "c", "e">> :> Bool(TRUE)))

\* The document of test_load_settings_success.
mock_settings ==
    Dict(PlainSections
      @@ (<<"m", "o", "n", "a", "r", "c", "h", "_", "m", "o", "n", "e", "y">> :>
            Dict((<<"e", "x", "p", "e", "c", "t", "e", "d", "_", "c", "o", "l", "u", "m", "n", "s">> :> Number(9))
              @@ (<<"c", "o", "l", "u", "m", "n", "_", "o", "r", "d", "e", "r">> :> List(column_headers)))))

\* A valid document that prints amounts without decimals.
WholeAmountSettings ==
    Dict(PlainSections
      @@ (<<"m", "o", "n", "a", "r", "c", "h", "_", "m", "o", "n", "e", "y">> :>
            Dict((<<"e", "x", "p", "e", "c", "t", "e", "d", "_", "c", "o", "l", "u", "m", "n", "s">> :> Number(9))
              @@ (<<"c", "o", "l", "u", "m", "n", "_", "o", "r", "d", "e", "r">> :> List(column_headers))
              @@ (<<"a", "m", "o", "u", "n", "t", "_", "p", "r", "e", "c", "i", "s", "i", "o", "n">> :> Number(0)))))

\* The document of test_validate_settings_column_mismatch.
ColumnMismatchSettings ==
    Dict(PlainSections
      @@ (<<"m", "o", "n", "a", "r", "c", "h", "_", "m", "o", "n", "e", "y">> :>
            Dict((<<"e", "x", "p", "e", "c", "t", "e", "d", "_", "c", "o", "l", "u", "m", "n", "s">> :> Number(9))
              @@ (<<"c", "o", "l", "u", "m", "n", "_", "o", "r", "d", "e", "r">> :> List(<<Str(<<"d", "a", "t", "e">>), Str(<<"d", "e", "s", "c", "r", "i", "p", "t", "i", "o", "n">>)>>)))))

\* The document of test_validate_settings_missing_section.
MissingSectionSettings ==
    Dict(<<"o", "u", "t", "p", "u", "t">> :> Dict(<<"c", "s", "v", "_", "f", "o", "r", "m", "a", "t">> :> Str(<<"m", "o", "n", "a", "r", "c", "h", "_", "m", "o", "n", "e", "y">>)))

\* The documents "{}" and "[]".
EmptyDictSettings == Dict(<<>>)

EmptyListSettings == List(<<>>)

required_sections ==
    <<<<"o", "u", "t", "p", "u", "t">>, <<"p", "r", "o", "c", "e", "s", "s", "i", "n", "g">>, <<"f", "i", "l", "e", "_", "h", "a", "n", "d", "l", "i", "n", "g">>, <<"v", "a", "l", "i", "d", "a", "t", "i", "o", "n">>, <<"m", "o", "n", "a", "r", "c", "h", "_", "m", "o", "n", "e", "y">>>>

\* ConfigManager._validate_settings on self.settings: the message of the
\* ConfigurationError it raises, or "" when validation passes.
_validate_settings(value) ==
    IF \E i \in 1..Len(required_sections) : ~In(required_sections[i], value)
    THEN "Missing required section in settings"
    ELSE LET monarch_config == value.items[<<"m", "o", "n", "a", "r", "c", "h", "_", "m", "o", "n", "e", "y">>]
             expected_columns == Get(monarch_config, <<"e", "x", "p", "e", "c", "t", "e", "d", "_", "c", "o", "l", "u", "m", "n", "s">>, Number(9))
             column_order == Get(monarch_config, <<"c", "o", "l", "u", "m", "n", "_", "o", "r", "d", "e", "r">>, List(<<>>))
         IN  IF Len(column_order.elements) # expected_columns.n
             THEN "Column order length doesn't match expected columns"
             ELSE ""

\* What settings.json is when a load reads it: absent, not JSON, or a document.
NoFile == [exists |-> FALSE, parses |-> FALSE, document |-> None]

InvalidJsonFile == [exists |-> TRUE, parses |-> FALSE, document |-> None]

JsonFile(document) == [exists |-> TRUE, parses |-> TRUE, document |-> document]

\* ConfigManager.load_settings with self.settings = before: the settings it
\* leaves in the manager and the message of its ConfigurationError, "" when
\* it returns.  The assignment precedes the validation.
load_settings(before, file) ==
    IF ~file.exists THEN [settings |-> before, raised |-> "Settings file not found"]
    ELSE IF ~file.parses
    THEN [settings |-> before, raised |-> "Invalid JSON in settings file"]
    ELSE IF _validate_settings(file.document) # ""
    THEN [settings |-> file.document, raised |-> "Error loading settings"]
    ELSE [settings |-> file.document, raised |-> ""]

RECURSIVE SplitFrom(_, _, _)
\* path.split('.') from position i, piece being the characters read since
\* the last dot.
SplitFrom(path, i, piece) ==
    IF i > Len(path) THEN <<piece>>
    ELSE IF path[i] = "." THEN <<piece>> \o SplitFrom(path, i + 1, <<>>)
    ELSE SplitFrom(path, i + 1, Append(piece, path[i]))

Split(path) == SplitFrom(path, 1, <<>>)

RECURSIVE Subscript(_, _, _, _)
\* for key in keys: value = value[key], from the i-th key on; a KeyError
\* (missing key) or a TypeError (value is no dict) gives the default.
Subscript(value, keys, i, default) ==
    IF i > Len(keys) THEN value
    ELSE IF value.kind # "dict" THEN default
    ELSE IF keys[i] \notin DOMAIN value.items THEN default
    ELSE Subscript(value.items[keys[i]], keys, i + 1, default)

\* The load check of a variant that never loads.
MustLoad_Never(value) == FALSE

\* if not self.settings
MustLoad(value) == Falsy(value)

\* ConfigManager.get_setting(path, default) with self.settings = before and
\* settings.json = file: the settings left in the manager, how often
\* load_settings ran, and the value returned or the error raised.
get_setting(before, file, path, default) ==
    LET loaded == IF MustLoad(before) THEN load_settings(before, file)
                  ELSE [settings |-> before, raised |-> ""]
        calls == IF MustLoad(before) THEN 1 ELSE 0
    IN  IF loaded.raised # ""
        THEN [settings |-> loaded.settings, load_settings_calls |-> calls,
              raised |-> loaded.raised, value |-> None]
        ELSE [settings |-> loaded.settings, load_settings_calls |-> calls,
              raised |-> "",
              value |-> Subscript(loaded.settings, Split(path), 1, default)]

required_mapping_sections == <<<<"e", "a", "r", "n", "i", "n", "g", "s">>, <<"d", "e", "d", "u", "c", "t", "i", "o", "n", "s">>, <<"f", "i", "e", "l", "d", "_", "m", "a", "p", "p", "i", "n", "g", "s">>>>

\* ConfigManager._validate_category_mappings on self.category_mappings (a
\* dict of dicts): the message of its ConfigurationError, "" when it passes.
_validate_category_mappings(mappings) ==
    IF \E i \in 1..Len(required_mapping_sections) :
            required_mapping_sections[i] \notin DOMAIN mappings
    THEN "Missing required section in category mappings"
    ELSE IF <<"e", "a", "r", "n", "i", "n", "g", "s", "_", "p", "a", "t", "t", "e", "r", "n", "s">> \notin DOMAIN mappings[<<"f", "i", "e", "l", "d", "_", "m", "a", "p", "p", "i", "n", "g", "s">>]
    THEN "Missing earnings_patterns in field_mappings"
    ELSE IF <<"d", "e", "d", "u", "c", "t", "i", "o", "n", "_", "p", "a", "t", "t", "e", "r", "n", "s">> \notin DOMAIN mappings[<<"f", "i", "e", "l", "d", "_", "m", "a", "p", "p", "i", "n", "g", "s">>]
    THEN "Missing deduction_patterns in field_mappings"
    ELSE ""

\* ConfigManager.load_category_mappings with self.category_mappings = before:
\* the tables it leaves in the manager and the message of its
\* ConfigurationError, "" when it returns.  The assignment precedes the
\* validation.
load_category_mappings(before, file) ==
    IF ~file.exists
        THEN [category_mappings |-> before, raised |-> "Category mappings file not found"]
    ELSE IF ~file.parses
        THEN [category_mappings |-> before,
              raised |-> "Invalid JSON in category mappings file"]
    ELSE IF _validate_category_mappings(file.document) # ""
        THEN [category_mappings |-> file.document,
              raised |-> "Error loading category mappings"]
    ELSE [category_mappings |-> file.document, raised |-> ""]
(* ----------------------------- CSV generator ---------------------------- *)

\* date.strftime('%Y-%m-%d')
strftime_Y_m_d(date) ==
    Decimal(date.year, 4) \o <<"-">> \o Decimal(date.month, 2) \o <<"-">> \o Decimal(date.day, 2)

\* date.strftime('%Y-%m')
strftime_Y_m(date) == Decimal(date.year, 4) \o <<"-">> \o Decimal(date.month, 2)

RECURSIVE JoinWith(_, _)
\* separator.join(parts)
JoinWith(separator, parts) ==
    IF parts = <<>> THEN <<>>
    ELSE IF Len(parts) = 1 THEN parts[1]
    ELSE parts[1] \o separator \o JoinWith(separator, Tail(parts))

\* f"{amount:.{amount_precision}f}" of an amount of so many cents, negative
\* being its sign bit (-abs(0.0) is -0.0 and prints as "-0.00").  Without
\* decimals the amount is rounded half to even.
FormatAmount(negative, cents, amount_precision) ==
    LET units == cents \div 100
        rest  == cents % 100
        sign  == IF negative THEN <<"-">> ELSE <<>>
    IN  CASE amount_precision.n = 2 ->
                sign \o Decimal(units, 1) \o <<".">> \o Decimal(rest, 2)
          [] amount_precision.n = 0 ->
                sign \o Decimal(IF rest > 50 \/ (rest = 50 /\ units % 2 = 1)
                                THEN units + 1 ELSE units, 1)

\* MonarchCSVGenerator._generate_labels
_generate_labels(paystub_data) ==
    JoinWith(<<",">>, (IF paystub_data.is_rsu_vest THEN <<<<"R", "S", "U">>>> ELSE <<>>)
                     \o <<<<"P", "a", "y", "r", "o", "l", "l">>, <<"P", "a", "y", "-">> \o strftime_Y_m(paystub_data.pay_date)>>)

\* MonarchCSVGenerator._generate_notes
_generate_notes(paystub_data) ==
    JoinWith(<<" ", "|", " ">>,
        <<<<"P", "a", "y", " ", "D", "a", "t", "e", ":", " ">> \o strftime_Y_m_d(paystub_data.pay_date)>>
        \o (IF paystub_data.period_start # paystub_data.pay_date
            THEN <<<<"P", "e", "r", "i", "o", "d", ":", " ">> \o strftime_Y_m_d(paystub_data.period_start)
                     \o <<" ", "t", "o", " ">> \o strftime_Y_m_d(paystub_data.period_end)>>
            ELSE <<>>)
        \o (IF paystub_data.is_rsu_vest THEN <<<<"R", "S", "U", " ", "V", "e", "s", "t", "i", "n", "g", " ", "E", "v", "e", "n", "t">>>> ELSE <<>>)
        \o <<<<"A", "d", "v", "i", "c", "e", ":", " ">> \o paystub_data.advice_number>>)

\* MonarchCSVGenerator._get_primary_account
_get_primary_account(mappings) ==
    LET account_mappings == IF <<"a", "c", "c", "o", "u", "n", "t", "_", "m", "a", "p", "p", "i", "n", "g", "s">> \in DOMAIN mappings
                            THEN mappings[<<"a", "c", "c", "o", "u", "n", "t", "_", "m", "a", "p", "p", "i", "n", "g", "s">>] ELSE <<>>
    IN  IF <<"c", "h", "e", "c", "k", "i", "n", "g", "_", "a", "c", "c", "t", "_", "1">> \in DOMAIN account_mappings
        THEN account_mappings[<<"c", "h", "e", "c", "k", "i", "n", "g", "_", "a", "c", "c", "t", "_", "1">>] ELSE <<"P", "r", "i", "m", "a", "r", "y", " ", "C", "h", "e", "c", "k", "i", "n", "g">>

\* MonarchCSVGenerator._create_csv_row; the amount comes as its sign bit and
\* its magnitude in cents.
_create_csv_row(config, date, description, negative, cents, transaction_type, category, account_name, paystub_data, transaction) ==
    LET amount_precision ==
            get_setting(config, NoFile, <<"m", "o", "n", "a", "r", "c", "h", "_", "m", "o", "n", "e", "y", ".", "a", "m", "o", "u", "n", "t", "_", "p", "r", "e", "c", "i", "s", "i", "o", "n">>, Number(2)).value
    IN  [date |-> strftime_Y_m_d(date),
         description |-> description,
         original_description |-> Slice(transaction.original_text, 1, 100),
         amount |-> FormatAmount(negative, cents, amount_precision),
         transaction_type |-> transaction_type,
         category |-> category,
         account_name |-> account_name,
         labels |-> _generate_labels(paystub_data),
         notes |-> _generate_notes(paystub_data)]

\* The row of an earning: a credit of the stored amount.
EarningRow(config, mappings, paystub_data, earning) ==
    _create_csv_row(config, paystub_data.pay_date, earning.description,
                    earning.amount < 0, Abs(earning.amount), "credit",
                    earning.category, _get_primary_account(mappings),
                    paystub_data, earning)

\* The row of a deduction in a variant that keeps the stored sign.
DeductionRow_NotNegated(config, mappings, paystub_data, deduction) ==
    _create_csv_row(config, paystub_data.pay_date, deduction.description,
                    deduction.amount < 0, Abs(deduction.amount), "debit",
                    deduction.category, _get_primary_account(mappings),
                    paystub_data, deduction)

\* The row of a deduction: a debit of -abs(deduction.amount).
DeductionRow(config, mappings, paystub_data, deduction) ==
    _create_csv_row(config, paystub_data.pay_date, deduction.description,
                    TRUE, Abs(deduction.amount), "debit",
                    deduction.category, _get_primary_account(mappings),
                    paystub_data, deduction)

\* The row of a distribution: a credit to the account of the deposit.
DistributionRow(config, mappings, paystub_data, distribution) ==
    _create_csv_row(config, paystub_data.pay_date, distribution.description,
                    distribution.amount < 0, Abs(distribution.amount), "credit",
                    <<"T", "r", "a", "n", "s", "f", "e", "r", ":", "D", "i", "r", "e", "c", "t", " ", "D", "e", "p", "o", "s", "i", "t">>,
                    IF distribution.account # <<>> THEN distribution.account
                    ELSE _get_primary_account(mappings),
                    paystub_data, distribution)

\* MonarchCSVGenerator._convert_to_csv_rows
_convert_to_csv_rows(config, mappings, paystub_data) ==
    [i \in 1..Len(paystub_data.earnings) |->
        EarningRow(config, mappings, paystub_data, paystub_data.earnings[i])]
    \o [i \in 1..Len(paystub_data.deductions) |->
        DeductionRow(config, mappings, paystub_data, paystub_data.deductions[i])]
    \o [i \in 1..Len(paystub_data.distributions) |->
        DistributionRow(config, mappings, paystub_data, paystub_data.distributions[i])]
(* ------------------------------ CSV files ------------------------------- *)

\* How many records a batch has at most.
MaxBatch == 3

\* The keys of every row _create_csv_row builds.
RowKeys == {column_headers[i].text : i \in 1..Len(column_headers)}

\* self.column_headers, as MonarchCSVGenerator.__init__ reads it.
ColumnHeaders(config) ==
    get_setting(config, NoFile, <<"m", "o", "n", "a", "r", "c", "h", "_", "m", "o", "n", "e", "y", ".", "c", "o", "l", "u", "m", "n", "_", "o", "r", "d", "e", "r">>, List(column_headers)).value

\* The file csv.DictWriter leaves behind and whether writing it raised: the
\* header, then the rows; a row with a key that is no field name raises a
\* ValueError at the first writerow.
WriteCsv(fieldnames, csv_rows) ==
    IF csv_rows # <<>>
       /\ ~(RowKeys \subseteq {fieldnames.elements[i].text : i \in 1..Len(fieldnames.elements)})
    THEN [file |-> [header |-> fieldnames.elements, rows |-> <<>>], raised |-> "ValueError"]
    ELSE [file |-> [header |-> fieldnames.elements, rows |-> csv_rows], raised |-> ""]

\* MonarchCSVGenerator.generate_csv(paystub_data, output_path) on the
\* directory dir, where writable tells whether open(output_file, 'w')
\* succeeds: the directory afterwards, the path returned, and the
\* exception raised ("" when it returns).
generate_csv(config, mappings, paystub_data, output_path, writable, dir) ==
    LET csv_rows == _convert_to_csv_rows(config, mappings, paystub_data)
        written == WriteCsv(ColumnHeaders(config), csv_rows)
    IN  IF ~writable
            THEN [output_dir |-> dir, value |-> <<>>, raised |-> "CSVGenerationError"]
        ELSE IF written.raised # ""
            THEN [output_dir |-> (output_path :> written.file) @@ dir,
                  value |-> <<>>, raised |-> "CSVGenerationError"]
        ELSE [output_dir |-> (output_path :> written.file) @@ dir,
              value |-> output_path, raised |-> ""]

\* filename = f"{pay_date:%Y-%m-%d}_{advice_number}_monarch.csv", under the
\* output directory.
OutputPath(directory, paystub_data) ==
    directory \o <<"/">> \o strftime_Y_m_d(paystub_data.pay_date) \o <<"_">>
        \o paystub_data.advice_number \o <<"_", "m", "o", "n", "a", "r", "c", "h", ".", "c", "s", "v">>

RECURSIVE BatchFrom_AbortOnFailure(_, _, _, _, _, _, _, _)
\* The loop of a variant that gives up at the first record that fails.
BatchFrom_AbortOnFailure(i, config, mappings, paystub_data_list, directory, unwritable, dir, generated_files) ==
    IF i > Len(paystub_data_list) THEN [output_dir |-> dir, value |-> generated_files]
    ELSE LET generated ==
                 generate_csv(config, mappings, paystub_data_list[i],
                              OutputPath(directory, paystub_data_list[i]),
                              i \notin unwritable, dir)
         IN  IF generated.raised # ""
             THEN [output_dir |-> generated.output_dir, value |-> generated_files]
             ELSE BatchFrom_AbortOnFailure(i + 1, config, mappings, paystub_data_list,
                                           directory, unwritable, generated.output_dir,
                                           Append(generated_files, generated.value))

RECURSIVE BatchFrom(_, _, _, _, _, _, _, _)
\* for paystub_data in paystub_data_list, from the i-th record on: a
\* CSVGenerationError is logged and the loop goes on.
BatchFrom(i, config, mappings, paystub_data_list, directory, unwritable, dir, generated_files) ==
    IF i > Len(paystub_data_list) THEN [output_dir |-> dir, value |-> generated_files]
    ELSE LET generated ==
                 generate_csv(config, mappings, paystub_data_list[i],
                              OutputPath(directory, paystub_data_list[i]),
                              i \notin unwritable, dir)
         IN  BatchFrom(i + 1, config, mappings, paystub_data_list, directory, unwritable,
                       generated.output_dir,
                       IF generated.raised # "" THEN generated_files
                       ELSE Append(generated_files, generated.value))

\* The batch of the variant that gives up at the first failure.
generate_batch_csv_AbortOnFailure(config, mappings, paystub_data_list, directory, unwritable, dir) ==
    BatchFrom_AbortOnFailure(1, config, mappings, paystub_data_list, directory,
                             unwritable, dir, <<>>)

\* MonarchCSVGenerator.generate_batch_csv(paystub_data_list, output_dir)
generate_batch_csv(config, mappings, paystub_data_list, directory, unwritable, dir) ==
    BatchFrom(1, config, mappings, paystub_data_list, directory, unwritable, dir, <<>>)

(* --------------------------- lines of a section -------------------------- *)

RECURSIVE FirstMatchFrom(_, _, _)
\* The position of the first line from the i-th on that contains the pattern,
\* whatever the case; 0 when there is none.
FirstMatchFrom(lines, pattern, i) ==
    IF i > Len(lines) THEN 0
    ELSE IF ContainsLower(pattern, lines[i]) THEN i
    ELSE FirstMatchFrom(lines, pattern, i + 1)

\* The section of a variant that looks for its end from the start line on.
extract_between_patterns_EndFromStart(lines, start_pattern, end_pattern) ==
    LET start == FirstMatchFrom(lines, start_pattern, 1)
        end   == FirstMatchFrom(lines, end_pattern, start)
    IN  IF start = 0 THEN <<>>
        ELSE SubSeq(lines, start + 1, IF end = 0 THEN Len(lines) ELSE end - 1)

\* RawPaystubText.extract_between_patterns: start is the position of the
\* first start line (start_idx counts from 0 and is the line after it), and
\* the end is looked for from the line after the start line on.
extract_between_patterns(lines, start_pattern, end_pattern) ==
    LET start == FirstMatchFrom(lines, start_pattern, 1)
        end   == FirstMatchFrom(lines, end_pattern, start + 1)
    IN  IF start = 0 THEN <<>>
        ELSE SubSeq(lines, start + 1, IF end = 0 THEN Len(lines) ELSE end - 1)

(* ---------------------------- state machine ---------------------------- *)

VARIABLES
    figures,            \* the figures the line under test was printed from
    line,               \* the line handed to _extract_amounts_from_line
    lines,              \* RawPaystubText.lines, the corpus of the document
    category_mappings,  \* ConfigManager.category_mappings, as loaded
    settings,           \* ConfigManager.settings, None until a load assigns it
    output_dir,         \* the files of the output directory, by file name
    call,               \* the operation that has run, "none" before it runs
    result              \* what the operation returned or raised

vars == <<figures, line, lines, category_mappings, settings, output_dir, call, result>>

Pending == [status |-> "pending"]

Returned(v) == [status |-> "returned", value |-> v]

Raised(e) == [status |-> "raised", error |-> e]

\* A line of text printed from a row of figures, before it is parsed.
InitAmounts ==
    /\ figures \in FigureRows
    /\ \E label \in FigureLabels : line = label \o TypesetAll(figures)
    /\ lines = <<>>
    /\ category_mappings = <<>>
    /\ settings = None
    /\ output_dir = <<>>
    /\ call = "none"
    /\ result = Pending

\* amounts = self._extract_amounts_from_line(line)
ExtractAmountsFromLine ==
    /\ call = "none"
    /\ line # <<>>
    /\ call' = "_extract_amounts_from_line"
    /\ result' = Returned(_extract_amounts_from_line(line))
    /\ UNCHANGED <<figures, line, lines, category_mappings, settings, output_dir>>

NextAmounts == ExtractAmountsFromLine

SpecAmounts == InitAmounts /\ [][NextAmounts]_vars

\* A document has been read into a corpus and the tables are loaded
\* (PaystubAnalyzer.__init__); nothing has been analyzed yet.
InitWith(corpora, tables) ==
    /\ lines \in corpora
    /\ category_mappings \in tables
    /\ figures = <<>>
    /\ line = <<>>
    /\ settings = mock_settings
    /\ output_dir = <<>>
    /\ call = "none"
    /\ result = Pending

\* metadata = self._extract_metadata(raw_text)
ExtractMetadata ==
    /\ call = "none"
    /\ call' = "_extract_metadata"
    /\ LET metadata == _extract_metadata(lines)
       IN  result' = IF metadata.raised = "" THEN Returned(metadata)
                     ELSE Raised(metadata)
    /\ UNCHANGED <<figures, line, lines, category_mappings, settings, output_dir>>

\* paystub_data = analyzer.analyze_paystub(raw_text, pdf_path)
AnalyzePaystub ==
    /\ call = "none"
    /\ call' = "analyze_paystub"
    /\ LET paystub_data == analyze_paystub(lines, category_mappings)
       IN  result' = IF paystub_data.raised = "" THEN Returned(paystub_data)
                     ELSE Raised(paystub_data)
    /\ UNCHANGED <<figures, line, lines, category_mappings, settings, output_dir>>

Init == InitWith(Corpora(ScenarioLines), {CompleteMappings, CategoryOnlyMappings})

Next == AnalyzePaystub

Spec == Init /\ [][Next]_vars

InitMetadata == InitWith(Corpora(MetadataLines), {CompleteMappings})

NextMetadata == ExtractMetadata \/ AnalyzePaystub

SpecMetadata == InitMetadata /\ [][NextMetadata]_vars


(* --------------------- further inputs and operations ------------------- *)

\* A pay period that begins after the date on which PeriodEndingLine ends it.
LatePeriodBeginningLine == <<"P", "e", "r", "i", "o", "d", " ", "B", "e", "g", "i", "n", "n", "i", "n", "g", ":", " ", "0", "9", "/", "1", "6", "/", "2", "0", "2", "5">>

\* Lines carrying the dates of a pay period, in and out of order.
PeriodLines ==
    {PayDateLine, PeriodBeginningLine, LatePeriodBeginningLine, PeriodEndingLine,
     RegularLine}

InitPeriod == InitWith(Corpora(PeriodLines), {CompleteMappings})

NextPeriod == AnalyzePaystub

SpecPeriod == InitPeriod /\ [][NextPeriod]_vars

\* RSU lines: the figure without separators, a small figure, and no figure
\* (in capitals: the search ignores case). RsuVestLine has the separators.
RsuUnseparatedLine == <<"R", "s", "u", " ", "V", "e", "s", "t", " ", "1", "5", "0", "0", "0", ".", "0", "0">>

RsuSmallLine == <<"R", "s", "u", " ", "V", "e", "s", "t", " ", "5", "0", "0", ".", "0", "0">>

RsuNoAmountLine == <<"R", "S", "U", " ", "V", "E", "S", "T">>

RegularSeparatedLine == <<"R", "e", "g", "u", "l", "a", "r", " ", "3", ",", "0", "0", "0", ".", "0", "0">>

RsuLines ==
    {RsuUnseparatedLine, RsuVestLine, RsuSmallLine, RsuNoAmountLine, RegularLine,
     RegularSeparatedLine, FederalTaxLine}

InitRsu == InitWith(Corpora(RsuLines), {CompleteMappings})

\* is_rsu_vest = self._detect_rsu_vesting(raw_text)
DetectRsuVesting ==
    /\ call = "none"
    /\ call' = "_detect_rsu_vesting"
    /\ result' = Returned(_detect_rsu_vesting(lines))
    /\ UNCHANGED <<figures, line, lines, category_mappings, settings, output_dir>>

NextRsu == DetectRsuVesting

SpecRsu == InitRsu /\ [][NextRsu]_vars

\* Earnings and deduction lines: two figures on a line (the larger one last),
\* a figure that is no amount, an earning no table has an entry for, and a
\* deduction.
RegularColumnsLine == <<"R", "e", "g", "u", "l", "a", "r", " ", "1", "0", "0", ".", "0", "0", " ", "2", "5", "0", ".", "0", "0">>

RegularNoAmountLine == <<"R", "e", "g", "u", "l", "a", "r", " ", "0", ".", "0", "0">>

HolidayLine == <<"H", "o", "l", "i", "d", "a", "y", " ", "P", "a", "y", " ", "2", "0", "0", ".", "0", "0">>

ClassifiedLines ==
    {RegularNoAmountLine, RegularColumnsLine, RegularSeparatedLine, HolidayLine,
     FederalTaxLine}

\* A table laid out as its validation expects it: the deductions section
\* holds the subsections, and two of them hold the same key.
NestedDeductionMappings ==
    (<<"e", "a", "r", "n", "i", "n", "g", "s">> :> <<>>)
      @@ (<<"d", "e", "d", "u", "c", "t", "i", "o", "n", "s">> :>
            ((<<"s", "t", "a", "t", "u", "t", "o", "r", "y">> :> (<<"f", "e", "d", "e", "r", "a", "l", "_", "i", "n", "c", "o", "m", "e", "_", "t", "a", "x">> :>
                  Entry({"category", "description"}, <<"T", "a", "x", "e", "s", ":", "F", "e", "d", "e", "r", "a", "l">>, <<"F", "e", "d", "e", "r", "a", "l", " ", "T", "a", "x">>)))
             @@ (<<"o", "t", "h", "e", "r">> :> (<<"f", "e", "d", "e", "r", "a", "l", "_", "i", "n", "c", "o", "m", "e", "_", "t", "a", "x">> :>
                  Entry({"category", "description"}, <<"O", "t", "h", "e", "r", ":", "M", "i", "s", "c">>, <<"O", "t", "h", "e", "r">>)))))
      @@ (<<"f", "i", "e", "l", "d", "_", "m", "a", "p", "p", "i", "n", "g", "s">> :> field_mappings)

\* A table whose subsections are top-level sections named with a dot, the
\* only layout in which get_category_mapping('deductions.<section>', key)
\* finds an entry. Its earnings entry is complete.
DottedDeductionMappings ==
    (<<"e", "a", "r", "n", "i", "n", "g", "s">> :> (<<"r", "e", "g", "u", "l", "a", "r">> :> Entry({"category", "description"},
                                         <<"I", "n", "c", "o", "m", "e", ":", "S", "a", "l", "a", "r", "y">>, <<"R", "e", "g", "u", "l", "a", "r", " ", "P", "a", "y">>)))
      @@ (<<"d", "e", "d", "u", "c", "t", "i", "o", "n", "s">> :> <<>>)
      @@ (<<"f", "i", "e", "l", "d", "_", "m", "a", "p", "p", "i", "n", "g", "s">> :> field_mappings)
      @@ (<<"d", "e", "d", "u", "c", "t", "i", "o", "n", "s", ".", "s", "t", "a", "t", "u", "t", "o", "r", "y">> :> (<<"f", "e", "d", "e", "r", "a", "l", "_", "i", "n", "c", "o", "m", "e", "_", "t", "a", "x">> :>
            Entry({"category", "description"}, <<"T", "a", "x", "e", "s", ":", "F", "e", "d", "e", "r", "a", "l">>, <<"F", "e", "d", "e", "r", "a", "l", " ", "T", "a", "x">>)))
      @@ (<<"d", "e", "d", "u", "c", "t", "i", "o", "n", "s", ".", "o", "t", "h", "e", "r">> :> (<<"f", "e", "d", "e", "r", "a", "l", "_", "i", "n", "c", "o", "m", "e", "_", "t", "a", "x">> :>
            Entry({"category", "description"}, <<"O", "t", "h", "e", "r", ":", "M", "i", "s", "c">>, <<"O", "t", "h", "e", "r">>)))

InitClassify ==
    InitWith(Corpora(ClassifiedLines),
             {CategoryOnlyMappings, NestedDeductionMappings, DottedDeductionMappings})

\* What an extraction step hands back: its transactions, or its exception.
Outcome(extracted) ==
    IF extracted.raised = "" THEN Returned(extracted.transactions) ELSE Raised(extracted)

\* earnings = self._extract_earnings(raw_text, is_rsu_vest)
ExtractEarnings ==
    /\ call = "none"
    /\ call' = "_extract_earnings"
    /\ result' = Outcome(_extract_earnings(lines, category_mappings))
    /\ UNCHANGED <<figures, line, lines, category_mappings, settings, output_dir>>

\* deductions = self._extract_deductions(raw_text, is_rsu_vest)
ExtractDeductions ==
    /\ call = "none"
    /\ call' = "_extract_deductions"
    /\ result' = Outcome(_extract_deductions(lines, category_mappings))
    /\ UNCHANGED <<figures, line, lines, category_mappings, settings, output_dir>>

NextClassify == ExtractEarnings \/ ExtractDeductions

SpecClassify == InitClassify /\ [][NextClassify]_vars

\* Distribution lines: two deposits to one account (one of them with two
\* figures, the larger one first), a deposit to an account no table names,
\* a net check of nothing, and a line that is no distribution.
CheckingSeparatedLine == <<"C", "h", "e", "c", "k", "i", "n", "g", " ", "A", "c", "c", "t", " ", "1", " ", "2", ",", "5", "5", "0", ".", "0", "0">>

CheckingColumnsLine == <<"C", "h", "e", "c", "k", "i", "n", "g", " ", "A", "c", "c", "t", " ", "1", " ", "1", "0", "0", ".", "0", "0", " ", "4", "0", ".", "0", "0">>

SavingsLine == <<"S", "a", "v", "i", "n", "g", "s", " ", "A", "c", "c", "t", " ", "1", " ", "5", "0", "0", ".", "0", "0">>

NetCheckNoAmountLine == <<"N", "e", "t", " ", "C", "h", "e", "c", "k", " ", "0", ".", "0", "0">>

DistributionLines ==
    {CheckingSeparatedLine, CheckingColumnsLine, SavingsLine, NetCheckNoAmountLine,
     HolidayLine}

InitDistributions ==
    InitWith(Corpora(DistributionLines), {CompleteMappings, CategoryOnlyMappings})

\* distributions = self._extract_distributions(raw_text)
ExtractDistributions ==
    /\ call = "none"
    /\ call' = "_extract_distributions"
    /\ result' = Returned(_extract_distributions(lines, category_mappings))
    /\ UNCHANGED <<figures, line, lines, category_mappings, settings, output_dir>>

NextDistributions == ExtractDistributions

SpecDistributions == InitDistributions /\ [][NextDistributions]_vars

\* Amounts, in cents, of which records are assembled for the balance check:
\* the sums 5000.00 / 1200.00 / 3800.00 and 3750.00 of the specification,
\* and net pays one and two cents off balance.
GrossPays == {500000, 120000}

DeductionAmounts == {120000, 60000, 1}

NetPays == {380000, 375000, 379999, 380001, 379998, 380002, 440000, 439999, 0}

InitBalance == InitWith({<<>>}, {CompleteMappings})

\* paystub_data = PaystubData(..., gross_pay=gross_pay, net_pay=net_pay,
\* deductions=deductions, ...): only the fields the balance check reads.
ConstructPaystubData ==
    /\ call = "none"
    /\ \E gross_pay \in GrossPays, net_pay \in NetPays,
          amounts \in UNION {[1..n -> DeductionAmounts] : n \in 0..2} :
            result' = Returned([gross_pay |-> gross_pay, net_pay |-> net_pay,
                                deductions |->
                                    [i \in 1..Len(amounts) |->
                                        Transaction(<<"F", "e", "d", "e", "r", "a", "l", " ", "T", "a", "x">>, amounts[i],
                                                    <<"T", "a", "x", "e", "s", ":", "F", "e", "d", "e", "r", "a", "l">>, <<>>, <<>>)]])
    /\ call' = "PaystubData"
    /\ UNCHANGED <<figures, line, lines, category_mappings, settings, output_dir>>

\* paystub_data.validate_balance(): the value returned, with the record it
\* was asked of.
ValidateBalance ==
    /\ call = "PaystubData"
    /\ call' = "validate_balance"
    /\ result' = [status |-> "returned", value |-> validate_balance(result.value),
                  self |-> result.value]
    /\ UNCHANGED <<figures, line, lines, category_mappings, settings, output_dir>>

NextBalance == ConstructPaystubData \/ ValidateBalance

SpecBalance == InitBalance /\ [][NextBalance]_vars

(* ------------------------- documents out of balance -------------------- *)

\* The document of the balance examples: earnings 5000.00, deductions
\* 1200.00, and a deposit of 3750.00 (50.00 short) or of 3800.00.
RegularFiveThousandLine == <<"R", "e", "g", "u", "l", "a", "r", " ", "5", ",", "0", "0", "0", ".", "0", "0">>

FederalTaxTwelveHundredLine == <<"F", "e", "d", "e", "r", "a", "l", " ", "I", "n", "c", "o", "m", "e", " ", "T", "a", "x", " ", "1", ",", "2", "0", "0", ".", "0", "0">>

CheckingShortLine == <<"C", "h", "e", "c", "k", "i", "n", "g", " ", "A", "c", "c", "t", " ", "1", " ", "3", ",", "7", "5", "0", ".", "0", "0">>

CheckingBalancedLine == <<"C", "h", "e", "c", "k", "i", "n", "g", " ", "A", "c", "c", "t", " ", "1", " ", "3", ",", "8", "0", "0", ".", "0", "0">>

BalanceLines ==
    {PayDateLine, RegularFiveThousandLine, FederalTaxTwelveHundredLine,
     CheckingShortLine, CheckingBalancedLine}

InitUnbalanced == InitWith(Corpora(BalanceLines), {CompleteMappings})

NextUnbalanced == AnalyzePaystub

SpecUnbalanced == InitUnbalanced /\ [][NextUnbalanced]_vars

(* ------------------------------ two runs ------------------------------- *)

TwiceLines == {PayDateLine, RegularSeparatedLine, HsaLine, CheckingSeparatedLine}

InitTwice == InitWith(Corpora(TwiceLines), {CompleteMappings, CategoryOnlyMappings})

\* A variant of MappingsAfterRun in which the run forgets the account names.
MappingsAfterRun_Forgotten(mappings) ==
    [section \in DOMAIN mappings \ {<<"a", "c", "c", "o", "u", "n", "t", "_", "m", "a", "p", "p", "i", "n", "g", "s">>} |-> mappings[section]]

\* The table the manager holds after a run of the analyzer. The run only
\* reads it: the analyzer's constructor has loaded the table, so no
\* get_category_mapping of the run finds it empty and loads it again.
MappingsAfterRun(mappings) == mappings

\* What analyze_paystub returned or raised.
AnalysisOutcome(paystub_data) ==
    IF paystub_data.raised = "" THEN Returned(paystub_data) ELSE Raised(paystub_data)

\* The first analyzer.analyze_paystub(raw_text, pdf_path), with the state it
\* leaves in the manager.
AnalyzeFirst ==
    /\ call = "none"
    /\ call' = "analyze_paystub"
    /\ result' = AnalysisOutcome(analyze_paystub(lines, category_mappings))
    /\ category_mappings' = MappingsAfterRun(category_mappings)
    /\ UNCHANGED <<figures, line, lines, settings, output_dir>>

\* The same call again, on the same analyzer and the same corpus; the
\* outcome of the first call is kept beside the second.
AnalyzeAgain ==
    /\ call = "analyze_paystub"
    /\ call' = "analyze_paystub twice"
    /\ result' = [status |-> "twice", first |-> result,
                  second |-> AnalysisOutcome(analyze_paystub(lines, category_mappings))]
    /\ category_mappings' = MappingsAfterRun(category_mappings)
    /\ UNCHANGED <<figures, line, lines, settings, output_dir>>

NextTwice == AnalyzeFirst \/ AnalyzeAgain

SpecTwice == InitTwice /\ [][NextTwice]_vars
(* ------------------------- CSV rows of a record ------------------------- *)

CsvLines == {PayDateLine, RsuVestLine, FederalTaxLine, HsaLine, CheckingSeparatedLine}

\* A generator has been constructed (MonarchCSVGenerator.__init__ loaded the
\* settings and the tables) and a document has been read.
InitCsvRows ==
    /\ lines \in Corpora(CsvLines)
    /\ category_mappings = CompleteMappings
    /\ settings \in {mock_settings, WholeAmountSettings}
    /\ figures = <<>>
    /\ line = <<>>
    /\ output_dir = <<>>
    /\ call = "none"
    /\ result = Pending

\* csv_rows = self._convert_to_csv_rows(paystub_data), on the record the
\* analysis returned.
ConvertToCsvRows ==
    /\ call = "analyze_paystub"
    /\ result.status = "returned"
    /\ call' = "_convert_to_csv_rows"
    /\ result' = [status |-> "returned",
                  value |-> _convert_to_csv_rows(settings, category_mappings, result.value),
                  paystub_data |-> result.value]
    /\ UNCHANGED <<figures, line, lines, category_mappings, settings, output_dir>>

NextCsvRows == AnalyzePaystub \/ ConvertToCsvRows

SpecCsvRows == InitCsvRows /\ [][NextCsvRows]_vars

(* --------------------------- batches of records -------------------------- *)

LatePayDateLine == <<"P", "a", "y", " ", "D", "a", "t", "e", ":", " ", "0", "9", "/", "3", "0", "/", "2", "0", "2", "5">>

\* Three documents: a regular paystub, an RSU paystub of the same pay date,
\* and a regular paystub of the next month.
BatchCorpora ==
    {<<PayDateLine, RegularSeparatedLine, CheckingSeparatedLine>>,
     <<PayDateLine, RsuVestLine>>,
     <<LatePayDateLine, RegularSeparatedLine>>}

\* The documents analyzed with the tables of the generator, and a record
\* without transactions.
BatchRecords ==
    {analyze_paystub(corpus, CompleteMappings) : corpus \in BatchCorpora}
        \cup {analyze_paystub(<<LatePayDateLine, PayDateLine>>, CompleteMappings)}

\* A valid document that names the ninth column "memo".
RenamedColumnSettings ==
    Dict(PlainSections
      @@ (<<"m", "o", "n", "a", "r", "c", "h", "_", "m", "o", "n", "e", "y">> :>
            Dict((<<"e", "x", "p", "e", "c", "t", "e", "d", "_", "c", "o", "l", "u", "m", "n", "s">> :> Number(9))
              @@ (<<"c", "o", "l", "u", "m", "n", "_", "o", "r", "d", "e", "r">> :>
                    List(SubSeq(column_headers, 1, 8) \o <<Str(<<"m", "e", "m", "o">>)>>)))))

InitBatch ==
    /\ settings \in {mock_settings, RenamedColumnSettings}
    /\ category_mappings = CompleteMappings
    /\ lines = <<>>
    /\ figures = <<>>
    /\ line = <<>>
    /\ output_dir = <<>>
    /\ call = "none"
    /\ result = Pending

\* batch_files = generator.generate_batch_csv(all_paystub_data, "output/batch"),
\* unwritable being the records whose file cannot be opened for writing.
GenerateBatchCsv ==
    /\ call = "none"
    /\ \E n \in 0..MaxBatch :
       \E paystub_data_list \in [1..n -> BatchRecords] :
       \E unwritable \in SUBSET (1..n) :
          LET batch == generate_batch_csv(settings, category_mappings, paystub_data_list,
                                          <<"o", "u", "t", "p", "u", "t", "/", "b", "a", "t", "c", "h">>, unwritable, output_dir)
          IN  /\ output_dir' = batch.output_dir
              /\ result' = [status |-> "returned", value |-> batch.value,
                            paystub_data_list |-> paystub_data_list,
                            unwritable |-> unwritable]
    /\ call' = "generate_batch_csv"
    /\ UNCHANGED <<figures, line, lines, category_mappings, settings>>

NextBatch == GenerateBatchCsv

SpecBatch == InitBatch /\ [][NextBatch]_vars

(* ------------------------- configuration manager ------------------------ *)

\* What config/settings.json can hold when it is read.
SettingsFiles ==
    {NoFile, InvalidJsonFile} \cup
    {JsonFile(document) : document \in
        {mock_settings, WholeAmountSettings, ColumnMismatchSettings,
         MissingSectionSettings, EmptyDictSettings, EmptyListSettings}}

\* The table of test_get_category_mapping_not_found and one whose
\* field_mappings lacks the pattern lists: both fail validation.
EarningsOnlyMappings == (<<"e", "a", "r", "n", "i", "n", "g", "s">> :> <<>>)

NoPatternsMappings ==
    (<<"e", "a", "r", "n", "i", "n", "g", "s">> :> (<<"r", "e", "g", "u", "l", "a", "r">> :> Entry({"category", "description"},
                                         <<"I", "n", "c", "o", "m", "e", ":", "W", "a", "g", "e", "s">>, <<"W", "a", "g", "e", "s">>)))
      @@ (<<"d", "e", "d", "u", "c", "t", "i", "o", "n", "s">> :> <<>>)
      @@ (<<"f", "i", "e", "l", "d", "_", "m", "a", "p", "p", "i", "n", "g", "s">> :> <<>>)

\* What config/category_mappings.json can hold when it is read.
MappingsFiles ==
    {[exists |-> FALSE, parses |-> FALSE, document |-> <<>>],
     [exists |-> TRUE, parses |-> FALSE, document |-> <<>>]} \cup
    {[exists |-> TRUE, parses |-> TRUE, document |-> document] : document \in
        {CompleteMappings, CategoryOnlyMappings, EarningsOnlyMappings,
         NoPatternsMappings}}

SettingPaths ==
    {<<"o", "u", "t", "p", "u", "t", ".", "c", "s", "v", "_", "f", "o", "r", "m", "a", "t">>, <<"m", "o", "n", "a", "r", "c", "h", "_", "m", "o", "n", "e", "y", ".", "e", "x", "p", "e", "c", "t", "e", "d", "_", "c", "o", "l", "u", "m", "n", "s">>,
     <<"m", "o", "n", "a", "r", "c", "h", "_", "m", "o", "n", "e", "y", ".", "a", "m", "o", "u", "n", "t", "_", "p", "r", "e", "c", "i", "s", "i", "o", "n">>, <<"n", "o", "n", "e", "x", "i", "s", "t", "e", "n", "t", ".", "k", "e", "y">>,
     <<"o", "u", "t", "p", "u", "t", ".", "c", "s", "v", "_", "f", "o", "r", "m", "a", "t", ".", "n", "a", "m", "e">>, <<"o", "u", "t", "p", "u", "t">>}

SettingDefaults == {None, Str(<<"d", "e", "f", "a", "u", "l", "t">>)}

\* ConfigManager.__init__: nothing is loaded.  (An empty table stands for
\* the None of category_mappings: `not self.category_mappings` holds of both.)
InitConfig ==
    /\ settings = None
    /\ category_mappings = <<>>
    /\ lines = <<>>
    /\ figures = <<>>
    /\ line = <<>>
    /\ output_dir = <<>>
    /\ call = "none"
    /\ result = Pending

\* config.load_settings()
LoadSettings ==
    /\ \E file \in SettingsFiles :
         LET loaded == load_settings(settings, file)
         IN  /\ settings' = loaded.settings
             /\ result' = [status |-> IF loaded.raised = "" THEN "returned" ELSE "raised",
                           value |-> IF loaded.raised = "" THEN loaded.settings ELSE None,
                           error |-> loaded.raised,
                           settings_before |-> settings,
                           category_mappings_before |-> category_mappings]
    /\ call' = "load_settings"
    /\ UNCHANGED <<figures, line, lines, category_mappings, output_dir>>

\* config.load_category_mappings()
LoadCategoryMappings ==
    /\ \E file \in MappingsFiles :
         LET loaded == load_category_mappings(category_mappings, file)
         IN  /\ category_mappings' = loaded.category_mappings
             /\ result' = [status |-> IF loaded.raised = "" THEN "returned" ELSE "raised",
                           value |-> IF loaded.raised = "" THEN loaded.category_mappings
                                     ELSE <<>>,
                           error |-> loaded.raised,
                           settings_before |-> settings,
                           category_mappings_before |-> category_mappings]
    /\ call' = "load_category_mappings"
    /\ UNCHANGED <<figures, line, lines, settings, output_dir>>

\* config.get_setting(path, default)
GetSetting ==
    /\ \E file \in SettingsFiles, path \in SettingPaths, default \in SettingDefaults :
         LET got == get_setting(settings, file, path, default)
         IN  /\ settings' = got.settings
             /\ result' = [status |-> IF got.raised = "" THEN "returned" ELSE "raised",
                           value |-> got.value,
                           error |-> got.raised,
                           load_settings_calls |-> got.load_settings_calls,
                           path |-> path,
                           default |-> default,
                           settings_before |-> settings]
    /\ call' = "get_setting"
    /\ UNCHANGED <<figures, line, lines, category_mappings, output_dir>>

\* config.get_category_mapping(category_type, item_key): the tables are
\* loaded first when there are none.
GetCategoryMapping ==
    /\ \E file \in MappingsFiles, item_key \in {<<"r", "e", "g", "u", "l", "a", "r">>, <<"h", "o", "l", "i", "d", "a", "y", "_", "p", "a", "y">>} :
         LET loaded == IF DOMAIN category_mappings = {}
                       THEN load_category_mappings(category_mappings, file)
                       ELSE [category_mappings |-> category_mappings, raised |-> ""]
         IN  /\ category_mappings' = loaded.category_mappings
             /\ result' = [status |-> IF loaded.raised = "" THEN "returned" ELSE "raised",
                           value |-> IF loaded.raised = ""
                                     THEN get_category_mapping(loaded.category_mappings,
                                                               <<"e", "a", "r", "n", "i", "n", "g", "s">>, item_key)
                                     ELSE NoMapping,
                           error |-> loaded.raised,
                           item_key |-> item_key,
                           category_mappings_before |-> category_mappings]
    /\ call' = "get_category_mapping"
    /\ UNCHANGED <<figures, line, lines, settings, output_dir>>

NextConfig == LoadSettings \/ LoadCategoryMappings \/ GetSetting \/ GetCategoryMapping

SpecConfig == InitConfig /\ [][NextConfig]_vars

(* --------------------------- lines of a section -------------------------- *)

EarningsHeaderLine == <<"E", "a", "r", "n", "i", "n", "g", "s">>

DeductionsHeaderLine == <<"D", "e", "d", "u", "c", "t", "i", "o", "n", "s">>

EarningsAndDeductionsLine == <<"E", "a", "r", "n", "i", "n", "g", "s", " ", "a", "n", "d", " ", "D", "e", "d", "u", "c", "t", "i", "o", "n", "s">>

SectionLines ==
    {EarningsHeaderLine, DeductionsHeaderLine, EarningsAndDeductionsLine,
     RegularSeparatedLine}

InitBetween == InitWith(Corpora(SectionLines), {CompleteMappings})

\* raw_text.extract_between_patterns(start_pattern, end_pattern)
ExtractBetweenPatterns ==
    /\ call = "none"
    /\ \E start_pattern \in {<<"E", "A", "R", "N", "I", "N", "G", "S">>, <<"N", "e", "t", " ", "P", "a", "y">>},
          end_pattern \in {<<"d", "e", "d", "u", "c", "t", "i", "o", "n", "s">>, <<"T", "o", "t", "a", "l", "s">>} :
         result' = [status |-> "returned",
                    value |-> extract_between_patterns(lines, start_pattern, end_pattern),
                    start_pattern |-> start_pattern,
                    end_pattern |-> end_pattern]
    /\ call' = "extract_between_patterns"
    /\ UNCHANGED <<figures, line, lines, category_mappings, settings, output_dir>>

NextBetween == ExtractBetweenPatterns

SpecBetween == InitBetween /\ [][NextBetween]_vars

(* ------------------------ labels that carry digits ----------------------- *)

TraditionalLine == <<"4", "0", "1", "K", "-", "T", "r", "a", "d", " ", "2", "5", "0", ".", "0", "0">>

CheckingNoAmountLine == <<"C", "h", "e", "c", "k", "i", "n", "g", " ", "A", "c", "c", "t", " ", "1">>

LabelLines ==
    {PayDateLine, TraditionalLine, CheckingNoAmountLine, FederalTaxLine,
     CheckingSeparatedLine}

InitLabels == InitWith(Corpora(LabelLines), {CompleteMappings})

NextLabels == ExtractDeductions \/ ExtractDistributions \/ AnalyzePaystub

SpecLabels == InitLabels /\ [][NextLabels]_vars

(* ------------------------------- claims -------------------------------- *)

\* The set of the elements of a sequence.
Range(s) == {s[i] : i \in 1..Len(s)}

ParsedLine == call = "_extract_amounts_from_line"

Analyzed == call = "analyze_paystub"

MetadataExtracted == call = "_extract_metadata"

\* A single figure written with thousands separators: commas between the
\* groups, no leading zero, no minus sign.
SeparatedFigure ==
    /\ Len(figures) = 1
    /\ figures[1].groups # <<>> /\ figures[1].sep
    /\ figures[1].lead[1] # "0"
    /\ ~figures[1].neg

\* A single figure of four or more integer digits written without separators.
UnseparatedFigure ==
    /\ Len(figures) = 1
    /\ figures[1].groups # <<>> /\ ~figures[1].sep
    /\ figures[1].lead[1] # "0"
    /\ ~figures[1].neg

\* The amounts of the figures above 0.01, in the order the figures are printed.
RECURSIVE PrintedAmounts(_)
PrintedAmounts(ts) ==
    IF ts = <<>> THEN <<>>
    ELSE (IF FigureCents(Head(ts)) > 1 THEN <<FigureCents(Head(ts))>> ELSE <<>>)
            \o PrintedAmounts(Tail(ts))

\* The corpus is the end-to-end scenario, pay-date line first, analysed with
\* a mapping table whose entries are complete.
ScenarioCorpus ==
    /\ lines = <<PayDateLine, RegularLine, FederalTaxLine, CheckingLine>>
    /\ category_mappings = CompleteMappings

\* C1: analyze_paystub on the scenario corpus (one "Regular 3000.00" line, one
\* "Federal Income Tax 450.00" line, one "Checking Acct 1 2550.00" line and a
\* pay-date line) returns a record with gross_pay 3000.00, net_pay 2550.00, one
\* earnings, one deductions and one distributions transaction, is_rsu_vest false.
C1_EndToEndScenario ==
    (Analyzed /\ ScenarioCorpus) =>
        /\ result.status = "returned"
        /\ result.value.gross_pay = 300000
        /\ result.value.net_pay = 255000
        /\ Len(result.value.earnings) = 1
        /\ Len(result.value.deductions) = 1
        /\ Len(result.value.distributions) = 1
        /\ ~result.value.is_rsu_vest

\* The amounts of a list of transactions.
AmountsOf(transactions) == [i \in 1..Len(transactions) |-> transactions[i].amount]

\* C2: in every record analyze_paystub returns, gross_pay is the sum of the
\* amounts of its earnings and net_pay the sum of the amounts of its
\* distributions (0 for an empty list).
C2_TotalsAreSums ==
    (Analyzed /\ result.status = "returned") =>
        /\ result.value.gross_pay = SumSeq(AmountsOf(result.value.earnings))
        /\ result.value.net_pay = SumSeq(AmountsOf(result.value.distributions))

\* A record with several earnings and a distribution has been returned.
C2_Witness ==
    /\ Analyzed /\ result.status = "returned"
    /\ Len(result.value.earnings) >= 2
    /\ Len(result.value.distributions) >= 1
    /\ result.value.gross_pay > result.value.earnings[1].amount
    /\ result.value.net_pay > 0

\* C3: for a line whose single figure is written with thousands separators,
\* with or without a currency symbol, _extract_amounts_from_line returns
\* exactly the value of the figure with the separators removed.
C3_SeparatedFigureValue ==
    (ParsedLine /\ SeparatedFigure) => result.value = <<FigureCents(figures[1])>>

\* "$1,234.56" has been parsed to 1234.56.
C3_Witness ==
    /\ ParsedLine /\ SeparatedFigure
    /\ line = <<"$", "1", ",", "2", "3", "4", ".", "5", "6">>
    /\ result.value = <<123456>>

\* C4: for a line whose single figure has four or more integer digits and no
\* separators, _extract_amounts_from_line returns the full value of the figure
\* as one amount.
C4_UnseparatedFigureValue ==
    (ParsedLine /\ UnseparatedFigure) => result.value = <<FigureCents(figures[1])>>

\* C5: for a line whose only figure has a magnitude of at most 0.01,
\* _extract_amounts_from_line returns the empty sequence.
C5_InsignificantFigure ==
    (ParsedLine /\ Len(figures) = 1 /\ FigureCents(figures[1]) <= 1) => result.value = <<>>

\* "0.01" has been parsed to nothing.
C5_Witness ==
    /\ ParsedLine /\ Len(figures) = 1
    /\ line = <<"0", ".", "0", "1">>
    /\ FigureCents(figures[1]) = 1
    /\ result.value = <<>>

\* C6: _extract_amounts_from_line returns the amounts of the figures of the
\* line from left to right, one entry per figure, figures with a minus sign
\* included. (Stated for lines whose figures are written with separators or
\* have at most three integer digits: the lines C4 is not about.)
C6_OneEntryPerFigureInOrder ==
    (ParsedLine /\ \A i \in 1..Len(figures) : figures[i].sep) =>
        result.value = PrintedAmounts(figures)

\* The pay-date tokens of the corpus with a well-formed date are valid, and
\* there is one: the corpus holds the valid pay-date line and otherwise only
\* lines without a date token.
ValidPayDateOnly ==
    /\ PayDateLine \in Range(lines)
    /\ Range(lines) \subseteq {PayDateLine, LowerCasePayDateLine, RegularLine}

\* C7: for a corpus with the token "Pay Date: 08/29/2025" and no period token,
\* wherever the pay-date line stands, _extract_metadata yields pay_date
\* 2025-08-29, period_start 2025-08-01 and period_end 2025-08-29.
C7_PayDateAnywhere ==
    (MetadataExtracted /\ ValidPayDateOnly) =>
        /\ result.status = "returned"
        /\ result.value.pay_date = [year |-> 2025, month |-> 8, day |-> 29]
        /\ result.value.period_start = [year |-> 2025, month |-> 8, day |-> 1]
        /\ result.value.period_end = [year |-> 2025, month |-> 8, day |-> 29]

\* The lines of the corpus that hold a token "Pay Date: MM/DD/YYYY", in order.
PayDateTokens ==
    SelectSeq(lines, LAMBDA l : l \in {PayDateLine, ImpossiblePayDateLine})

\* The corpus has no pay-date token, or its pay-date token (the first one) is
\* no calendar date.
NoValidPayDate == PayDateTokens = <<>> \/ PayDateTokens[1] = ImpossiblePayDateLine

\* C8: for a corpus without a token "Pay Date: MM/DD/YYYY", or whose pay-date
\* token is no valid calendar date, analyze_paystub raises PaystubAnalysisError
\* and returns no record.
C8_NoPayDateIsFatal ==
    (Analyzed /\ NoValidPayDate) =>
        /\ result.status = "raised"
        /\ result.error.raised = "PaystubAnalysisError"

\* The impossible date 02/30/2025, on a line followed by another line, has
\* made the analysis raise.
C8_Witness ==
    /\ Analyzed
    /\ Len(lines) >= 2 /\ lines[1] = ImpossiblePayDateLine
    /\ result.status = "raised"
    /\ result.error.cause = "strptime"

\* The first pay-date token of the corpus is valid and its line is not the
\* last line of the corpus.
ValidPayDateFollowed ==
    /\ PayDateTokens # <<>> /\ PayDateTokens[1] = PayDateLine
    /\ \E i \in 1..(Len(lines) - 1) : lines[i] = PayDateLine

\* C9: pay-date absence is the only fatal condition: for a corpus with a valid
\* pay-date token analyze_paystub returns a record, whatever else the corpus
\* holds, malformed period dates included. (Stated for corpora whose pay-date
\* line has a line after it, where what C7 is about plays no part.)
C9_OnlyPayDateIsFatal ==
    (Analyzed /\ ValidPayDateFollowed) => result.status = "returned"

PeriodBeginningPresent ==
    \E i \in 1..Len(lines) : lines[i] \in {PeriodBeginningLine, MalformedPeriodBeginningLine}

PeriodEndingPresent == PeriodEndingLine \in Range(lines)

\* C10 as stated: when either period token is absent, both period_start and
\* period_end take their defaults from pay_date.
C10_BothDefaultWhenEitherAbsent ==
    (/\ MetadataExtracted /\ result.status = "returned"
     /\ (~PeriodBeginningPresent \/ ~PeriodEndingPresent)) =>
        /\ result.value.period_start = [result.value.pay_date EXCEPT !.day = 1]
        /\ result.value.period_end = result.value.pay_date

\* C10 as amended: the two fields default independently. In every metadata
\* result, period_start is the first day of pay_date's month when the Period
\* Beginning token is absent and the token's date when it is present; period_end
\* is pay_date when the Period Ending token is absent and the token's date when
\* it is present.
C10_EachDefaultsAlone ==
    (MetadataExtracted /\ result.status = "returned") =>
        /\ result.value.period_start =
              IF PeriodBeginningPresent THEN [year |-> 2025, month |-> 8, day |-> 16]
              ELSE [result.value.pay_date EXCEPT !.day = 1]
        /\ result.value.period_end =
              IF PeriodEndingPresent THEN [year |-> 2025, month |-> 8, day |-> 31]
              ELSE result.value.pay_date

\* Metadata has been extracted from a corpus with a Period Beginning token
\* and no Period Ending token: the token's date and the default stand together.
C10_Witness ==
    /\ MetadataExtracted /\ result.status = "returned"
    /\ PeriodBeginningPresent /\ ~PeriodEndingPresent
    /\ result.value.period_start = [year |-> 2025, month |-> 8, day |-> 16]
    /\ result.value.period_end = result.value.pay_date


(* --------------------------- further claims ---------------------------- *)

\* date1 <= date2
DateLE(date1, date2) ==
    \/ date1.year < date2.year
    \/ date1.year = date2.year /\ date1.month < date2.month
    \/ date1.year = date2.year /\ date1.month = date2.month /\ date1.day <= date2.day

\* The corpus holds a "Period Beginning" token and a "Period Ending" token.
BothPeriodTokens ==
    /\ \E i \in 1..Len(lines) : lines[i] \in {PeriodBeginningLine, LatePeriodBeginningLine}
    /\ PeriodEndingLine \in Range(lines)

\* C11: in every record analyze_paystub returns for a corpus that holds both
\* the "Period Beginning" and the "Period Ending" token,
\* period_start <= period_end.
C11_PeriodInOrder ==
    (Analyzed /\ result.status = "returned" /\ BothPeriodTokens) =>
        DateLE(result.value.period_start, result.value.period_end)

RsuDetected == call = "_detect_rsu_vesting"

\* The amount printed on a line of RsuLines, in cents.
PrintedCents(l) ==
    CASE l \in {RsuUnseparatedLine, RsuVestLine} -> 1500000
      [] l = RsuSmallLine -> 50000
      [] l \in {RegularLine, RegularSeparatedLine} -> 300000
      [] l = FederalTaxLine -> 45000
      [] OTHER -> 0

\* The "rsu vest" lines of the corpus, and those of them that carry an amount.
RsuVestLines ==
    SelectSeq(lines, LAMBDA l : l \in {RsuUnseparatedLine, RsuVestLine, RsuSmallLine,
                                        RsuNoAmountLine})

RsuVestLinesWithAmount == SelectSeq(RsuVestLines, LAMBDA l : l # RsuNoAmountLine)

\* The "regular" lines of the corpus; each carries an amount.
RegularLinesWithAmount ==
    SelectSeq(lines, LAMBDA l : l \in {RegularLine, RegularSeparatedLine})

\* C12: when both an "rsu vest" line and a "regular" line carry an amount,
\* _detect_rsu_vesting returns true exactly when the first amount printed on
\* the RSU lines is more than twice the first amount printed on the regular
\* lines ("Rsu Vest 15000.00" with "Regular 3000.00": true).
C12_RsuAgainstRegular ==
    (RsuDetected /\ RsuVestLinesWithAmount # <<>> /\ RegularLinesWithAmount # <<>>) =>
        result.value = (PrintedCents(RsuVestLinesWithAmount[1])
                           > 2 * PrintedCents(RegularLinesWithAmount[1]))

\* C13: when an "rsu vest" line carries an amount and no "regular" line does,
\* _detect_rsu_vesting returns true exactly when the first RSU amount is more
\* than 10000 ("Rsu Vest 15000.00" alone: true; "Rsu Vest 500.00" alone: false).
C13_RsuAlone ==
    (RsuDetected /\ RsuVestLinesWithAmount # <<>> /\ RegularLinesWithAmount = <<>>) =>
        result.value = (PrintedCents(RsuVestLinesWithAmount[1]) > 1000000)

\* C14: _detect_rsu_vesting returns false for a corpus without a line
\* containing "rsu vest", and true for a corpus that has such lines, none of
\* them with an amount, whatever its "regular" lines hold.
C14_RsuPresenceAlone ==
    RsuDetected =>
        /\ RsuVestLines = <<>> => result.value = FALSE
        /\ (RsuVestLines # <<>> /\ RsuVestLinesWithAmount = <<>>) => result.value = TRUE

\* "RSU VEST" without an amount, beside a regular line with one, has been
\* taken as a vesting event.
C14_Witness ==
    /\ RsuDetected
    /\ RsuNoAmountLine \in Range(lines) /\ RsuVestLinesWithAmount = <<>>
    /\ RegularSeparatedLine \in Range(lines)
    /\ result.value = TRUE

EarningsExtracted == call = "_extract_earnings"

DeductionsExtracted == call = "_extract_deductions"

\* The transactions extracted from a line.
TransactionsOf(l) == SelectSeq(result.value, LAMBDA t : t.original_text = l)

\* The table has no entry for the regular earnings.
NoRegularEntry == <<"r", "e", "g", "u", "l", "a", "r">> \notin DOMAIN category_mappings[<<"e", "a", "r", "n", "i", "n", "g", "s">>]

\* C15 as stated: an earnings key without an entry in the earnings section of
\* the table gets the category "Earnings:<Key In Title Case>" and the raw
\* pattern as its description (holiday_pay: "Earnings:Holiday_Pay", "Holiday Pay").
C15_FallbackUnderEarnings ==
    (EarningsExtracted /\ result.status = "returned" /\ HolidayLine \in Range(lines)) =>
        /\ TransactionsOf(HolidayLine) # <<>>
        /\ \A i \in 1..Len(TransactionsOf(HolidayLine)) :
              /\ TransactionsOf(HolidayLine)[i].category = <<"E", "a", "r", "n", "i", "n", "g", "s", ":", "H", "o", "l", "i", "d", "a", "y", "_", "P", "a", "y">>
              /\ TransactionsOf(HolidayLine)[i].description = <<"H", "o", "l", "i", "d", "a", "y", " ", "P", "a", "y">>

\* C15 as amended: an earnings key without an entry in the earnings section of
\* the table gets the category "Income:<Key In Title Case>" and the raw
\* pattern as its description (holiday_pay: "Income:Holiday_Pay", "Holiday Pay";
\* regular: "Income:Regular", "Regular").
C15_FallbackUnderIncome ==
    (EarningsExtracted /\ result.status = "returned") =>
        /\ \A i \in 1..Len(result.value) :
              result.value[i].original_text = HolidayLine =>
                  /\ result.value[i].category = <<"I", "n", "c", "o", "m", "e", ":", "H", "o", "l", "i", "d", "a", "y", "_", "P", "a", "y">>
                  /\ result.value[i].description = <<"H", "o", "l", "i", "d", "a", "y", " ", "P", "a", "y">>
        /\ \A i \in 1..Len(result.value) :
              (NoRegularEntry /\ result.value[i].original_text # HolidayLine) =>
                  /\ result.value[i].category = <<"I", "n", "c", "o", "m", "e", ":", "R", "e", "g", "u", "l", "a", "r">>
                  /\ result.value[i].description = <<"R", "e", "g", "u", "l", "a", "r">>
        /\ HolidayLine \in Range(lines) => TransactionsOf(HolidayLine) # <<>>

\* A holiday-pay transaction stands beside a regular one classified from the
\* table.
C15_Witness ==
    /\ EarningsExtracted /\ result.status = "returned"
    /\ ~NoRegularEntry
    /\ Len(result.value) = 2
    /\ result.value[1].category = <<"I", "n", "c", "o", "m", "e", ":", "S", "a", "l", "a", "r", "y">>
    /\ result.value[2].original_text = HolidayLine
    /\ result.value[2].category = <<"I", "n", "c", "o", "m", "e", ":", "H", "o", "l", "i", "d", "a", "y", "_", "P", "a", "y">>

\* C16: category classification never fails: whatever the table and the key,
\* the extractor obtains a category and a description and raises nothing.
C16_ClassificationNeverFails ==
    (EarningsExtracted \/ DeductionsExtracted) => result.status = "returned"

\* C17: a deduction takes category and description from the first of the
\* subsections statutory, retirement, healthcare, life_insurance, other of
\* the deductions section that holds its key; the synthesized fallback is for
\* keys no subsection holds.
C17_FirstSubsectionWins ==
    (/\ DeductionsExtracted /\ result.status = "returned"
     /\ category_mappings = NestedDeductionMappings) =>
        \A i \in 1..Len(result.value) :
            result.value[i].original_text = FederalTaxLine =>
                /\ result.value[i].category = <<"T", "a", "x", "e", "s", ":", "F", "e", "d", "e", "r", "a", "l">>
                /\ result.value[i].description = <<"F", "e", "d", "e", "r", "a", "l", " ", "T", "a", "x">>

\* The largest amount printed on a line of ClassifiedLines, in cents.
LargestPrinted(l) ==
    CASE l = RegularColumnsLine -> 25000
      [] l = RegularSeparatedLine -> 300000
      [] l = HolidayLine -> 20000
      [] l = FederalTaxLine -> 45000
      [] OTHER -> 0

\* The lines of the corpus that match a pattern and carry an amount, in
\* document order.
RegularLinesCarrying ==
    SelectSeq(lines, LAMBDA l : l \in {RegularColumnsLine, RegularSeparatedLine})

HolidayLinesCarrying == SelectSeq(lines, LAMBDA l : l = HolidayLine)

FederalTaxLinesCarrying == SelectSeq(lines, LAMBDA l : l = FederalTaxLine)

\* The one transaction of a pattern, as (line, amount): from the first of
\* the lines and with the largest amount printed on it.
FirstOf(carrying) ==
    IF carrying = <<>> THEN <<>>
    ELSE << <<carrying[1], LargestPrinted(carrying[1])>> >>

\* The extracted transactions as (line, amount) pairs.
LinesAndAmounts ==
    [i \in 1..Len(result.value) |->
        <<result.value[i].original_text, result.value[i].amount>>]

DistributionsExtracted == call = "_extract_distributions"

\* The lines of the corpus matching "Checking Acct 1" and "Savings Acct 1",
\* in document order; each carries an amount.
CheckingLinesCarrying ==
    SelectSeq(lines, LAMBDA l : l \in {CheckingSeparatedLine, CheckingColumnsLine})

SavingsLinesCarrying == SelectSeq(lines, LAMBDA l : l = SavingsLine)

\* The name the table gives the checking account, the label without one.
CheckingAccountName ==
    IF <<"a", "c", "c", "o", "u", "n", "t", "_", "m", "a", "p", "p", "i", "n", "g", "s">> \in DOMAIN category_mappings
    THEN <<"J", "o", "i", "n", "t", " ", "C", "h", "e", "c", "k", "i", "n", "g">> ELSE <<"C", "h", "e", "c", "k", "i", "n", "g", " ", "A", "c", "c", "t", " ", "1">>

\* One deposit per line, as (line, amount, category, account).
Deposits(carrying, amounts, account) ==
    [i \in 1..Len(carrying) |->
        <<carrying[i], amounts[carrying[i]], <<"T", "r", "a", "n", "s", "f", "e", "r", ":", "D", "i", "r", "e", "c", "t", " ", "D", "e", "p", "o", "s", "i", "t">>, account>>]

\* The largest amount printed after the label on a distribution line, in cents.
LargestDeposit ==
    (CheckingSeparatedLine :> 255000) @@ (CheckingColumnsLine :> 10000)
        @@ (SavingsLine :> 50000)

\* C19: _extract_distributions yields one transaction for every pattern and
\* every line matching it that carries a positive amount, without a cutoff
\* after the first; its amount is the largest on the line, its category
\* "Transfer:Direct Deposit", its account the account_mappings entry of the
\* label in lower case with underscores, the label itself without an entry.
\* (The figures of the lines are larger than the number in the label.)
C19_EveryDistributionLine ==
    DistributionsExtracted =>
        [i \in 1..Len(result.value) |->
            <<result.value[i].original_text, result.value[i].amount,
              result.value[i].category, result.value[i].account>>]
          = Deposits(CheckingLinesCarrying, LargestDeposit, CheckingAccountName)
              \o Deposits(SavingsLinesCarrying, LargestDeposit, <<"S", "a", "v", "i", "n", "g", "s", " ", "A", "c", "c", "t", " ", "1">>)

\* A savings line before two checking lines: three deposits, the checking
\* account's first and under the name the table gives it.
C19_Witness ==
    /\ DistributionsExtracted
    /\ lines = <<SavingsLine, CheckingColumnsLine, CheckingSeparatedLine, NetCheckNoAmountLine>>
    /\ Len(result.value) = 3
    /\ result.value[1].account = <<"J", "o", "i", "n", "t", " ", "C", "h", "e", "c", "k", "i", "n", "g">>
    /\ result.value[1].amount = 10000
    /\ result.value[2].amount = 255000
    /\ result.value[3].account = <<"S", "a", "v", "i", "n", "g", "s", " ", "A", "c", "c", "t", " ", "1">>

BalanceValidated == call = "validate_balance"

\* |gross_pay - sum(deductions.amount) - net_pay| of the record validated, in
\* cents.
Imbalance ==
    LET difference == result.self.gross_pay - SumSeq(AmountsOf(result.self.deductions))
                         - result.self.net_pay
    IN  IF difference < 0 THEN -difference ELSE difference

\* C20: validate_balance returns true exactly when
\* |gross_pay - sum(deductions.amount) - net_pay| is within 0.01, a difference
\* of exactly 0.01 included (5000.00 / 1200.00 / 3800.00 balances,
\* 5000.00 / 1200.00 / 3750.00 does not).
C20_BalanceWithinOneCent ==
    BalanceValidated => (result.value = (Imbalance <= 1))

(* ----------------------------- last claims ----------------------------- *)

\* How many lines of the corpus are the line l.
Count(l) == Cardinality({i \in 1..Len(lines) : lines[i] = l})

\* The pay-date line stands in the corpus with a line after it.
PayDateLineFollowed == \E i \in 1..(Len(lines) - 1) : lines[i] = PayDateLine

\* gross_pay - sum(deductions.amount) - net_pay of the record returned.
RecordImbalance ==
    result.value.gross_pay - SumSeq(AmountsOf(result.value.deductions))
        - result.value.net_pay

\* C21: a failed balance check neither blocks nor changes the result: for a
\* corpus with a valid pay date analyze_paystub returns the record of what the
\* lines hold (gross_pay, net_pay and the three lists), in balance or not,
\* and raises nothing. (Stated for corpora whose pay-date line has a line
\* after it.)
C21_UnbalancedStillReturned ==
    (Analyzed /\ PayDateLineFollowed) =>
        /\ result.status = "returned"
        /\ result.value.gross_pay =
              IF Count(RegularFiveThousandLine) > 0 THEN 500000 ELSE 0
        /\ SumSeq(AmountsOf(result.value.deductions)) =
              IF Count(FederalTaxTwelveHundredLine) > 0 THEN 120000 ELSE 0
        /\ result.value.net_pay =
              375000 * Count(CheckingShortLine) + 380000 * Count(CheckingBalancedLine)
        /\ Len(result.value.distributions) =
              Count(CheckingShortLine) + Count(CheckingBalancedLine)

\* The document 5000.00 / 1200.00 / 3750.00 has been returned, 50.00 out of
\* balance, with net_pay 3750.00.
C21_Witness ==
    /\ Analyzed /\ result.status = "returned"
    /\ lines = <<PayDateLine, RegularFiveThousandLine, FederalTaxTwelveHundredLine,
                 CheckingShortLine>>
    /\ result.value.net_pay = 375000
    /\ RecordImbalance = 5000
    /\ ~validate_balance(result.value)

AnalyzedTwice == call = "analyze_paystub twice"

Converted == call = "_convert_to_csv_rows"

\* The printed amount of the lines the rows of the scenario come from.
PrintedAmount(original_text) ==
    CASE original_text = RsuVestLine    -> <<"1", "5", "0", "0", "0", ".", "0", "0">>
      [] original_text = FederalTaxLine -> <<"4", "5", "0", ".", "0", "0">>
      [] original_text = HsaLine        -> <<"5", "0", ".", "0", "0">>
      [] original_text = CheckingSeparatedLine -> <<"2", "5", "5", "0", ".", "0", "0">>

TwoDecimals ==
    ~In(<<"a", "m", "o", "u", "n", "t", "_", "p", "r", "e", "c", "i", "s", "i", "o", "n">>, settings.items[<<"m", "o", "n", "a", "r", "c", "h", "_", "m", "o", "n", "e", "y">>])

\* C23: _convert_to_csv_rows gives one row per transaction, the earnings
\* first, then the deductions, then the distributions, each in list order;
\* earnings and distributions are credits of the stored amount, deductions
\* are debits of the negated amount.
C23_OneRowPerTransaction ==
    Converted =>
        LET rows == result.value
            earnings == result.paystub_data.earnings
            deductions == result.paystub_data.deductions
            distributions == result.paystub_data.distributions
            E == Len(earnings)
            D == Len(deductions)
        IN  /\ Len(rows) = E + D + Len(distributions)
            /\ \A i \in 1..E :
                /\ rows[i].transaction_type = "credit"
                /\ rows[i].description = earnings[i].description
                /\ rows[i].original_description = earnings[i].original_text
                /\ TwoDecimals =>
                     rows[i].amount = PrintedAmount(earnings[i].original_text)
            /\ \A i \in 1..D :
                /\ rows[E + i].transaction_type = "debit"
                /\ rows[E + i].description = deductions[i].description
                /\ rows[E + i].original_description = deductions[i].original_text
                /\ Head(rows[E + i].amount) = "-"
                /\ TwoDecimals =>
                     rows[E + i].amount
                        = <<"-">> \o PrintedAmount(deductions[i].original_text)
            /\ \A i \in 1..Len(distributions) :
                /\ rows[E + D + i].transaction_type = "credit"
                /\ rows[E + D + i].description = distributions[i].description
                /\ rows[E + D + i].original_description = distributions[i].original_text
                /\ TwoDecimals =>
                     rows[E + D + i].amount
                        = PrintedAmount(distributions[i].original_text)

\* Two earnings, a deduction and a deposit become four rows.
C23_Witness ==
    /\ Converted
    /\ TwoDecimals
    /\ Len(result.paystub_data.earnings) = 2
    /\ Len(result.paystub_data.deductions) = 1
    /\ Len(result.paystub_data.distributions) = 1
    /\ Len(result.value) = 4
    /\ result.value[1].amount = <<"1", "5", "0", "0", "0", ".", "0", "0">>
    /\ result.value[3].amount = <<"-", "4", "5", "0", ".", "0", "0">>
    /\ result.value[4].amount = <<"2", "5", "5", "0", ".", "0", "0">>

(* ------------------------------- batches -------------------------------- *)

BatchGenerated == call = "generate_batch_csv"

\* The file name of a record of the batch, by its pay date.
PathOf(paystub_data) ==
    IF paystub_data.pay_date = [year |-> 2025, month |-> 8, day |-> 29]
    THEN <<"o", "u", "t", "p", "u", "t", "/", "b", "a", "t", "c", "h", "/", "2", "0", "2", "5", "-", "0", "8", "-", "2", "9", "_", "A", "D", "V", "_", "2", "0", "2", "5", "0", "8", "2", "9", "_", "m", "o", "n", "a", "r", "c", "h", ".", "c", "s", "v">>
    ELSE <<"o", "u", "t", "p", "u", "t", "/", "b", "a", "t", "c", "h", "/", "2", "0", "2", "5", "-", "0", "9", "-", "3", "0", "_", "A", "D", "V", "_", "2", "0", "2", "5", "0", "9", "3", "0", "_", "m", "o", "n", "a", "r", "c", "h", ".", "c", "s", "v">>

HasRows(paystub_data) ==
    paystub_data.earnings # <<>> \/ paystub_data.deductions # <<>>
        \/ paystub_data.distributions # <<>>

\* The records of the batch whose CSV generation succeeded: the file could
\* be opened and every row written.
Succeeded ==
    {i \in 1..Len(result.paystub_data_list) :
        /\ i \notin result.unwritable
        /\ settings = mock_settings \/ ~HasRows(result.paystub_data_list[i])}

Failed == (1..Len(result.paystub_data_list)) \ Succeeded

\* C24: generate_batch_csv raises nothing and returns the path of every
\* record whose generation succeeded, in input order, whatever failed.
C24_BatchSurvivesFailures ==
    BatchGenerated =>
        /\ result.status = "returned"
        /\ Len(result.value) = Cardinality(Succeeded)
        /\ \A i \in Succeeded :
             result.value[Cardinality({j \in Succeeded : j <= i})]
                = PathOf(result.paystub_data_list[i])

\* The second of three records fails, the first and the third are returned.
C24_Witness ==
    /\ BatchGenerated
    /\ Len(result.paystub_data_list) = 3
    /\ Failed = {2}
    /\ Len(result.value) = 2
    /\ result.value[2] = <<"o", "u", "t", "p", "u", "t", "/", "b", "a", "t", "c", "h", "/", "2", "0", "2", "5", "-", "0", "9", "-", "3", "0", "_", "A", "D", "V", "_", "2", "0", "2", "5", "0", "9", "3", "0", "_", "m", "o", "n", "a", "r", "c", "h", ".", "c", "s", "v">>

\* The batch holds no document twice.
DifferentRecords ==
    \A i, j \in 1..Len(result.paystub_data_list) :
        i # j => result.paystub_data_list[i] # result.paystub_data_list[j]

\* C30: when the generation of every record of a batch of different records
\* succeeds, the paths returned are pairwise different and the directory
\* holds one file per record, two records of the same pay date included.
C30_OneFilePerRecord ==
    (BatchGenerated /\ Failed = {} /\ DifferentRecords) =>
        /\ \A i, j \in 1..Len(result.value) : i # j => result.value[i] # result.value[j]
        /\ Cardinality(DOMAIN output_dir) = Len(result.paystub_data_list)

(* ----------------------------- configuration ---------------------------- *)

GotSetting == call = "get_setting"

\* document[first][second], when both keys are there.
Has(document, first, second) ==
    /\ document.kind = "dict"
    /\ first \in DOMAIN document.items
    /\ document.items[first].kind = "dict"
    /\ second \in DOMAIN document.items[first].items

\* The value get_setting is to return from the settings it ends with.
ValueAtPath ==
    LET at(first, second) ==
            IF Has(settings, first, second)
            THEN settings.items[first].items[second] ELSE result.default
    IN  CASE result.path = <<"o", "u", "t", "p", "u", "t", ".", "c", "s", "v", "_", "f", "o", "r", "m", "a", "t">> -> at(<<"o", "u", "t", "p", "u", "t">>, <<"c", "s", "v", "_", "f", "o", "r", "m", "a", "t">>)
          [] result.path = <<"m", "o", "n", "a", "r", "c", "h", "_", "m", "o", "n", "e", "y", ".", "e", "x", "p", "e", "c", "t", "e", "d", "_", "c", "o", "l", "u", "m", "n", "s">> ->
                at(<<"m", "o", "n", "a", "r", "c", "h", "_", "m", "o", "n", "e", "y">>, <<"e", "x", "p", "e", "c", "t", "e", "d", "_", "c", "o", "l", "u", "m", "n", "s">>)
          [] result.path = <<"m", "o", "n", "a", "r", "c", "h", "_", "m", "o", "n", "e", "y", ".", "a", "m", "o", "u", "n", "t", "_", "p", "r", "e", "c", "i", "s", "i", "o", "n">> ->
                at(<<"m", "o", "n", "a", "r", "c", "h", "_", "m", "o", "n", "e", "y">>, <<"a", "m", "o", "u", "n", "t", "_", "p", "r", "e", "c", "i", "s", "i", "o", "n">>)
          [] result.path = <<"o", "u", "t", "p", "u", "t">> ->
                IF settings.kind = "dict" /\ <<"o", "u", "t", "p", "u", "t">> \in DOMAIN settings.items
                THEN settings.items[<<"o", "u", "t", "p", "u", "t">>] ELSE result.default
          [] OTHER -> result.default

\* C25: get_setting loads the settings once when none are loaded and never
\* when a document is loaded; when it returns, it returns the value at the
\* path, or the default when a key of the path is missing.
C25_LoadOnceThenLookUp ==
    GotSetting =>
        /\ result.settings_before = None => result.load_settings_calls = 1
        /\ (result.settings_before.kind = "dict"
              /\ DOMAIN result.settings_before.items # {})
             => (result.load_settings_calls = 0 /\ settings = result.settings_before
                   /\ result.status = "returned")
        /\ result.status = "returned" => result.value = ValueAtPath

\* A lookup of a missing key on a fresh manager loads the test document
\* once and gives the default.
C25_Witness ==
    /\ GotSetting
    /\ result.status = "returned"
    /\ result.settings_before = None
    /\ settings = mock_settings
    /\ result.load_settings_calls = 1
    /\ result.path = <<"n", "o", "n", "e", "x", "i", "s", "t", "e", "n", "t", ".", "k", "e", "y">>
    /\ result.value = Str(<<"d", "e", "f", "a", "u", "l", "t">>)

LoadRaised ==
    /\ call \in {"load_settings", "load_category_mappings"}
    /\ result.status = "raised"

\* C29: a load that raises ConfigurationError (missing file, invalid JSON or
\* failed validation) leaves settings and category_mappings as they were
\* before the call.
C29_FailedLoadChangesNothing ==
    LoadRaised =>
        /\ settings = result.settings_before
        /\ category_mappings = result.category_mappings_before

(* --------------------------- lines of a section -------------------------- *)

Between == call = "extract_between_patterns"

\* The lines of the corpus that match the start and the end pattern.
StartMatches ==
    {i \in 1..Len(lines) :
        /\ result.start_pattern = <<"E", "A", "R", "N", "I", "N", "G", "S">>
        /\ lines[i] \in {EarningsHeaderLine, EarningsAndDeductionsLine}}

EndMatches ==
    {i \in 1..Len(lines) :
        /\ result.end_pattern = <<"d", "e", "d", "u", "c", "t", "i", "o", "n", "s">>
        /\ lines[i] \in {DeductionsHeaderLine, EarningsAndDeductionsLine}}

\* The least position of a set of positions, or the given one when empty.
Least(positions, otherwise) ==
    IF positions = {} THEN otherwise
    ELSE CHOOSE i \in positions : \A j \in positions : i <= j

FirstStart == Least(StartMatches, 0)

\* C26 as stated: the section ends before the first end line at or after
\* the start line, so it is empty when the start line itself matches end.
C26_EndAtOrAfterStart ==
    Between =>
        result.value =
            IF StartMatches = {} THEN <<>>
            ELSE SubSeq(lines, FirstStart + 1,
                        Least({i \in EndMatches : i >= FirstStart}, Len(lines) + 1) - 1)

\* C26: extract_between_patterns returns the lines strictly after the first
\* start line, up to but excluding the first end line strictly after it; it
\* is empty when start is not found and runs to the end of the corpus when
\* no end line follows.
C26_EndAfterStart ==
    Between =>
        result.value =
            IF StartMatches = {} THEN <<>>
            ELSE SubSeq(lines, FirstStart + 1,
                        Least({i \in EndMatches : i > FirstStart}, Len(lines) + 1) - 1)

\* The start line matches end too, and the section runs on to the next end
\* line.
C26_Witness ==
    /\ Between
    /\ lines = <<EarningsAndDeductionsLine, RegularSeparatedLine, DeductionsHeaderLine>>
    /\ result.start_pattern = <<"E", "A", "R", "N", "I", "N", "G", "S">>
    /\ result.end_pattern = <<"d", "e", "d", "u", "c", "t", "i", "o", "n", "s">>
    /\ result.value = <<RegularSeparatedLine>>

(* ------------------------ labels that carry digits ----------------------- *)

\* The figures printed after the label of a line, in cents.
PrintedAfterLabel(original_text) ==
    CASE original_text = TraditionalLine       -> {25000}
      [] original_text = FederalTaxLine        -> {45000}
      [] original_text = CheckingSeparatedLine -> {255000}
      [] original_text = CheckingNoAmountLine  -> {}

\* C27: the amount of every extracted deduction and distribution is a
\* figure printed after the label of its line, never a number made of the
\* digits of the label: "401K-Trad 250.00" gives 250.00 and
\* "Checking Acct 1" gives no distribution.
C27_AmountsComeAfterTheLabel ==
    (call \in {"_extract_deductions", "_extract_distributions"}
        /\ result.status = "returned") =>
        \A i \in 1..Len(result.value) :
            result.value[i].amount \in PrintedAfterLabel(result.value[i].original_text)

(* ---------------------- one transaction for one line --------------------- *)

\* No two transactions of the list come from the same line.
FromDifferentLines(transactions) ==
    \A i, j \in 1..Len(transactions) :
        i # j => transactions[i].original_text # transactions[j].original_text

\* C28: no line of the corpus gives more than one earnings transaction and
\* none more than one deduction, so gross_pay counts the amount of a line
\* once: the single earnings line "Rsu Vest 15,000.00" gives one earnings
\* transaction and gross_pay = 15000.00.
C28_OneTransactionPerLine ==
    (Analyzed /\ result.status = "returned") =>
        /\ FromDifferentLines(result.value.earnings)
        /\ FromDifferentLines(result.value.deductions)
        /\ (lines = <<PayDateLine, RsuVestLine>>
              => (Len(result.value.earnings) = 1 /\ result.value.gross_pay = 1500000))

====
